---- MODULE Spec2Model ----
(***************************************************************************)
(* The sector simulation engine of the Bangladesh education simulation:   *)
(* the seven sector models (src/models/*.py) and the orchestrator that    *)
(* owns and runs them (src/simulation/main.py).                           *)
(*                                                                         *)
(* Numbers.  The program computes with Python floats.  The model computes *)
(* with exact rationals <<n, d>> (d > 0, lowest terms), so every product, *)
(* sum, min and max is the real-number value of the Python expression;    *)
(* binary rounding error is not modelled.                                 *)
(***************************************************************************)
EXTENDS Integers, Sequences, FiniteSets, TLC

(***************************************************************************)
(* Exact rational arithmetic.                                              *)
(***************************************************************************)
Abs(x) == IF x < 0 THEN 0 - x ELSE x

RECURSIVE GCD(_, _)
GCD(a, b) == IF b = 0 THEN a ELSE GCD(b, a % b)

\* The rational n/d in lowest terms with a positive denominator.
R(n, d) ==
    LET s == IF d < 0 THEN 0 - 1 ELSE 1
        g == GCD(Abs(n), Abs(d))
    IN  <<(s * n) \div g, (s * d) \div g>>

Num(n) == <<n, 1>>
\* Sums go over the least common denominator, to keep the intermediate
\* integers small.
Add(a, b) ==
    IF a[2] = b[2] THEN R(a[1] + b[1], a[2])
    ELSE LET g == GCD(a[2], b[2])
         IN  R(a[1] * (b[2] \div g) + b[1] * (a[2] \div g), (a[2] \div g) * b[2])
Sub(a, b) == Add(a, <<0 - b[1], b[2]>>)
Mul(a, b) == R(a[1] * b[1], a[2] * b[2])
DivInt(a, k) == R(a[1], a[2] * k)
Le(a, b) == a[1] * b[2] <= b[1] * a[2]
Lt(a, b) == a[1] * b[2] < b[1] * a[2]
\* Python's min(a, b) and max(a, b) on floats.
Min(a, b) == IF Le(a, b) THEN a ELSE b
Max(a, b) == IF Le(b, a) THEN a ELSE b
\* numpy.clip(x, lo, hi) == minimum(maximum(x, lo), hi)
np_clip(x, lo, hi) == Min(Max(x, lo), hi)

Zero == Num(0)
One == Num(1)
Half == R(1, 2)

(***************************************************************************)
(* Python dicts are functions on a finite set of string keys.             *)
(***************************************************************************)
EmptyDict == [k \in {} |-> Zero]
\* d.get(k, default)
Get(d, k, default) == IF k \in DOMAIN d THEN d[k] ELSE default

\* d[k] = v
DictSet(d, k, v) == [x \in DOMAIN d \cup {k} |-> IF x = k THEN v ELSE d[x]]
\* bool(d): an empty dict (and None, modelled as the empty dict) is falsy.
Truthy(d) == DOMAIN d # {}

RECURSIVE SumOver(_, _)
SumOver(d, keys) ==
    IF keys = {} THEN Zero
    ELSE LET k == CHOOSE x \in keys : TRUE
         IN  Add(d[k], SumOver(d, keys \ {k}))
\* sum(d.values())
SumValues(d) == SumOver(d, DOMAIN d)
\* len(d)
Len_(d) == Cardinality(DOMAIN d)

(***************************************************************************)
(* The initial-condition and diminishing-returns expressions the six      *)
(* generic models repeat for each indicator.                              *)
(***************************************************************************)
\* The product without the cap at 1.0.
InitialValueUncapped(base, m1, w1, m2, w2) ==
    Mul(Mul(base, Add(One, Mul(m1, w1))), Add(One, Mul(m2, w2)))

\* min(base * (1 + m1 * w1) * (1 + m2 * w2), 1.0)
InitialValue(base, m1, w1, m2, w2) ==
    Min(Mul(Mul(base, Add(One, Mul(m1, w1))), Add(One, Mul(m2, w2))), One)

\* An update that adds the factor's share of the headroom, f*(1-v), instead
\* of scaling the value by it.
GrowAddingHeadroom(v, f) == Min(Add(v, Mul(f, Sub(One, v))), One)

\* A growth update with the sign of the headroom term slipped:
\* min(v * (1 - f * (1 - v)), 1.0).
GrowSignSlip(v, f) == Min(Mul(v, Sub(One, Mul(f, Sub(One, v)))), One)

\* min(v * (1 + f * (1 - v)), 1.0)
Grow(v, f) == Min(Mul(v, Add(One, Mul(f, Sub(One, v)))), One)

(***************************************************************************)
(* AccessModel (src/models/access_model.py).  `self` is the model         *)
(* instance: its parameters and its four current_* attributes.            *)
(***************************************************************************)
AccessModel_init(parameters) ==
    [parameters |-> parameters,
     current_primary_enrollment |-> Zero,
     current_secondary_transition |-> Zero,
     current_primary_dropout |-> One,
     current_secondary_dropout |-> One]

\* An initial-state computation that rescales the dropout rates it finds
\* instead of deriving them from the parameters.
AccessModel_calculate_initial_state_rescaling(self) ==
    [self EXCEPT
       !.current_primary_dropout = Min(Mul(self.current_primary_dropout, R(8, 10)), One),
       !.current_secondary_dropout = Min(Mul(self.current_secondary_dropout, R(12, 10)), One)]

\* An initial state whose dropout risk is not capped at 1 before the two
\* rates are derived from it.
AccessModel_calculate_initial_state_uncapped_risk(self) ==
    LET p == self.parameters
        initial_dropout_risk ==
            Mul(Mul(Get(p.socioeconomic_factors, "poverty_rate", Zero),
                    Add(One, Mul(Sub(One, Get(p.physical_infrastructure, "school_quality", Zero)),
                                 Half))),
                Sub(One, Mul(Get(p.incentive_programs, "dropout_prevention", Zero), Half)))
    IN  [self EXCEPT
           !.current_primary_enrollment =
               InitialValue(Get(p.population_demographics, "primary_age_population", Zero),
                            Get(p.physical_infrastructure, "school_density", Zero), R(1, 10),
                            Get(p.incentive_programs, "stipend_coverage", Zero), R(1, 10)),
           !.current_secondary_transition =
               InitialValue(Get(p.institutional_capacity, "secondary_schools", Zero),
                            Get(p.socioeconomic_factors, "household_income", Zero), R(1, 10),
                            Get(p.geographic_distribution, "transportation_access", Zero),
                            R(1, 10)),
           !.current_primary_dropout = Min(Mul(initial_dropout_risk, R(8, 10)), One),
           !.current_secondary_dropout = Min(Mul(initial_dropout_risk, R(12, 10)), One)]

AccessModel_calculate_initial_state(self) ==
    LET p == self.parameters
        base_primary_enrollment == Get(p.population_demographics, "primary_age_population", Zero)
        infrastructure_factor == Get(p.physical_infrastructure, "school_density", Zero)
        incentive_factor == Get(p.incentive_programs, "stipend_coverage", Zero)
        base_transition_rate == Get(p.institutional_capacity, "secondary_schools", Zero)
        economic_factor == Get(p.socioeconomic_factors, "household_income", Zero)
        geographic_factor == Get(p.geographic_distribution, "transportation_access", Zero)
        base_dropout_risk == Get(p.socioeconomic_factors, "poverty_rate", Zero)
        infrastructure_risk == Sub(One, Get(p.physical_infrastructure, "school_quality", Zero))
        incentive_mitigation == Get(p.incentive_programs, "dropout_prevention", Zero)
        initial_dropout_risk ==
            Min(Mul(Mul(base_dropout_risk, Add(One, Mul(infrastructure_risk, Half))),
                    Sub(One, Mul(incentive_mitigation, Half))), One)
    IN  [self EXCEPT
           !.current_primary_enrollment =
               InitialValue(base_primary_enrollment, infrastructure_factor, R(1, 10),
                            incentive_factor, R(1, 10)),
           !.current_secondary_transition =
               InitialValue(base_transition_rate, economic_factor, R(1, 10),
                            geographic_factor, R(1, 10)),
           !.current_primary_dropout = Min(Mul(initial_dropout_risk, R(8, 10)), One),
           !.current_secondary_dropout = Min(Mul(initial_dropout_risk, R(12, 10)), One)]

\* An update that raises the dropout rates by the reduction factor
\* instead of lowering them.
AccessModel_update_state_raising(self, year) ==
    LET p == self.parameters
        dropout_reduction == p.annual_dropout_reduction_factor
    IN  [self EXCEPT
           !.current_primary_enrollment =
               Grow(self.current_primary_enrollment, p.annual_enrollment_growth_factor),
           !.current_secondary_transition =
               Grow(self.current_secondary_transition, p.annual_transition_improvement_factor),
           !.current_primary_dropout =
               Max(Mul(self.current_primary_dropout, Add(One, dropout_reduction)), Zero),
           !.current_secondary_dropout =
               Max(Mul(self.current_secondary_dropout,
                       Add(One, Mul(dropout_reduction, R(8, 10)))), Zero)]

\* An update with the two reduction rates exchanged: the primary rate falls
\* by 0.8 of the factor and the secondary rate by the whole factor.
AccessModel_update_state_rates_exchanged(self, year) ==
    LET p == self.parameters
        dropout_reduction == p.annual_dropout_reduction_factor
    IN  [self EXCEPT
           !.current_primary_enrollment =
               Grow(self.current_primary_enrollment, p.annual_enrollment_growth_factor),
           !.current_secondary_transition =
               Grow(self.current_secondary_transition, p.annual_transition_improvement_factor),
           !.current_primary_dropout =
               Max(Mul(self.current_primary_dropout,
                       Sub(One, Mul(dropout_reduction, R(8, 10)))), Zero),
           !.current_secondary_dropout =
               Max(Mul(self.current_secondary_dropout, Sub(One, dropout_reduction)), Zero)]

AccessModel_update_state(self, year) ==
    LET p == self.parameters
        dropout_reduction == p.annual_dropout_reduction_factor
    IN  [self EXCEPT
           !.current_primary_enrollment =
               Grow(self.current_primary_enrollment, p.annual_enrollment_growth_factor),
           !.current_secondary_transition =
               Grow(self.current_secondary_transition, p.annual_transition_improvement_factor),
           !.current_primary_dropout =
               Max(Mul(self.current_primary_dropout, Sub(One, dropout_reduction)), Zero),
           !.current_secondary_dropout =
               Max(Mul(self.current_secondary_dropout,
                       Sub(One, Mul(dropout_reduction, R(8, 10)))), Zero)]

\* The row simulate_access_dynamics appends for `year`.
AccessModel_row(self, year) ==
    [year |-> year,
     primary_enrollment |-> self.current_primary_enrollment,
     secondary_transition |-> self.current_secondary_transition,
     primary_dropout |-> self.current_primary_dropout,
     secondary_dropout |-> self.current_secondary_dropout]

(***************************************************************************)
(* QualityModel (src/models/quality_model.py).                             *)
(***************************************************************************)
QualityModel_init(parameters) ==
    [parameters |-> parameters,
     current_reading_proficiency |-> Zero,
     current_numeracy_skills |-> Zero,
     current_critical_thinking |-> Zero,
     current_science_literacy |-> Zero]

QualityModel_calculate_initial_state(self) ==
    LET p == self.parameters
    IN  [self EXCEPT
           !.current_reading_proficiency =
               InitialValue(Get(p.teaching_practices, "reading_instruction_quality", Zero),
                            Get(p.learning_environments, "classroom_quality", Zero), R(1, 10),
                            Get(p.assessment_systems, "reading_assessment_frequency", Zero), R(1, 10)),
           !.current_numeracy_skills =
               InitialValue(Get(p.teaching_practices, "math_instruction_quality", Zero),
                            Get(p.curricular_implementation, "math_curriculum_quality", Zero), R(1, 10),
                            Get(p.assessment_systems, "math_assessment_frequency", Zero), R(1, 10)),
           !.current_critical_thinking =
               InitialValue(Get(p.teaching_practices, "critical_thinking_emphasis", Zero),
                            Get(p.learning_environments, "student_engagement", Zero), R(1, 10),
                            Get(p.curricular_implementation, "critical_thinking_integration", Zero), R(1, 10)),
           !.current_science_literacy =
               InitialValue(Get(p.teaching_practices, "science_instruction_quality", Zero),
                            Get(p.learning_environments, "lab_facilities", Zero), R(1, 10),
                            Get(p.curricular_implementation, "science_curriculum_quality", Zero), R(1, 10))]

QualityModel_update_state(self, year) ==
    LET p == self.parameters
    IN  [self EXCEPT
           !.current_reading_proficiency = Grow(self.current_reading_proficiency, p.annual_quality_improvement_factor),
           !.current_numeracy_skills = Grow(self.current_numeracy_skills, p.annual_quality_improvement_factor),
           !.current_critical_thinking = Grow(self.current_critical_thinking, p.annual_quality_improvement_factor),
           !.current_science_literacy = Grow(self.current_science_literacy, p.annual_quality_improvement_factor)]

QualityModel_row(self, year) ==
    [year |-> year,
     reading_proficiency |-> self.current_reading_proficiency,
     numeracy_skills |-> self.current_numeracy_skills,
     critical_thinking |-> self.current_critical_thinking,
     science_literacy |-> self.current_science_literacy]

(***************************************************************************)
(* InstitutionModel (src/models/institution_model.py).                     *)
(***************************************************************************)
InstitutionModel_init(parameters) ==
    [parameters |-> parameters,
     current_leadership_effectiveness |-> Zero,
     current_community_engagement |-> Zero,
     current_resource_utilization |-> Zero,
     current_institutional_culture |-> Zero]

InstitutionModel_calculate_initial_state(self) ==
    LET p == self.parameters
    IN  [self EXCEPT
           !.current_leadership_effectiveness =
               InitialValue(Get(p.governance_structures, "leadership_quality", Zero),
                            Get(p.management_practices, "strategic_planning", Zero), R(2, 10),
                            Get(p.resource_allocation, "budget_management", Zero), R(1, 10)),
           !.current_community_engagement =
               InitialValue(Get(p.governance_structures, "community_participation", Zero),
                            Get(p.institutional_culture, "parent_involvement", Zero), R(1, 10),
                            Get(p.management_practices, "community_outreach", Zero), R(1, 10)),
           !.current_resource_utilization =
               InitialValue(Get(p.resource_allocation, "resource_efficiency", Zero),
                            Get(p.management_practices, "financial_management", Zero), R(1, 10),
                            Get(p.governance_structures, "accountability", Zero), R(1, 10)),
           !.current_institutional_culture =
               InitialValue(Get(p.institutional_culture, "school_climate", Zero),
                            Get(p.governance_structures, "vision_alignment", Zero), R(1, 10),
                            Get(p.management_practices, "staff_morale", Zero), R(1, 10))]

InstitutionModel_update_state(self, year) ==
    LET p == self.parameters
    IN  [self EXCEPT
           !.current_leadership_effectiveness = Grow(self.current_leadership_effectiveness, p.annual_leadership_improvement_factor),
           !.current_community_engagement = Grow(self.current_community_engagement, p.annual_engagement_improvement_factor),
           !.current_resource_utilization = Grow(self.current_resource_utilization, p.annual_resource_util_improvement_factor),
           !.current_institutional_culture = Grow(self.current_institutional_culture, p.annual_culture_improvement_factor)]

InstitutionModel_row(self, year) ==
    [year |-> year,
     leadership_effectiveness |-> self.current_leadership_effectiveness,
     community_engagement |-> self.current_community_engagement,
     resource_utilization |-> self.current_resource_utilization,
     institutional_culture |-> self.current_institutional_culture]

(***************************************************************************)
(* CurriculumModel (src/models/curriculum_model.py).                       *)
(***************************************************************************)
CurriculumModel_init(parameters) ==
    [parameters |-> parameters,
     current_curriculum_relevance |-> Zero,
     current_21st_century_skills |-> Zero,
     current_learning_materials |-> Zero,
     current_pedagogical_innovation |-> Zero]

CurriculumModel_calculate_initial_state(self) ==
    LET p == self.parameters
    IN  [self EXCEPT
           !.current_curriculum_relevance =
               InitialValue(Get(p.content_development, "content_quality", Zero),
                            Get(p.competency_frameworks, "skill_alignment", Zero), R(1, 10),
                            Get(p.instructional_methods, "pedagogical_effectiveness", Zero), R(1, 10)),
           !.current_21st_century_skills =
               InitialValue(Get(p.competency_frameworks, "critical_thinking", Zero),
                            Get(p.content_development, "digital_literacy", Zero), R(1, 10),
                            Get(p.instructional_methods, "collaborative_learning", Zero), R(1, 10)),
           !.current_learning_materials =
               InitialValue(Get(p.learning_materials, "textbook_quality", Zero),
                            Get(p.content_development, "supplementary_materials", Zero), R(1, 10),
                            Get(p.instructional_methods, "resource_utilization", Zero), R(1, 10)),
           !.current_pedagogical_innovation =
               InitialValue(Get(p.instructional_methods, "active_learning", Zero),
                            Get(p.content_development, "digital_content", Zero), R(1, 10),
                            Get(p.competency_frameworks, "assessment_innovation", Zero), R(1, 10))]

\* An update that starts improving only from year 1 on: a call with year 0
\* leaves the state as it is.
CurriculumModel_update_state_from_year_one(self, year) ==
    LET p == self.parameters
    IN  IF year < 1 THEN self
        ELSE [self EXCEPT
           !.current_curriculum_relevance = Grow(self.current_curriculum_relevance, p.annual_relevance_improvement_factor),
           !.current_21st_century_skills = Grow(self.current_21st_century_skills, p.annual_skills_improvement_factor),
           !.current_learning_materials = Grow(self.current_learning_materials, p.annual_materials_improvement_factor),
           !.current_pedagogical_innovation = Grow(self.current_pedagogical_innovation, p.annual_innovation_improvement_factor)]

CurriculumModel_update_state(self, year) ==
    LET p == self.parameters
    IN  [self EXCEPT
           !.current_curriculum_relevance = Grow(self.current_curriculum_relevance, p.annual_relevance_improvement_factor),
           !.current_21st_century_skills = Grow(self.current_21st_century_skills, p.annual_skills_improvement_factor),
           !.current_learning_materials = Grow(self.current_learning_materials, p.annual_materials_improvement_factor),
           !.current_pedagogical_innovation = Grow(self.current_pedagogical_innovation, p.annual_innovation_improvement_factor)]

CurriculumModel_row(self, year) ==
    [year |-> year,
     curriculum_relevance |-> self.current_curriculum_relevance,
     21st_century_skills |-> self.current_21st_century_skills,
     learning_materials |-> self.current_learning_materials,
     pedagogical_innovation |-> self.current_pedagogical_innovation]

(***************************************************************************)
(* EdTechModel (src/models/edtech_model.py).                               *)
(***************************************************************************)
EdTechModel_init(parameters) ==
    [parameters |-> parameters,
     current_digital_infrastructure |-> Zero,
     current_teacher_digital_competency |-> Zero,
     current_digital_content |-> Zero,
     current_emerging_tech_adoption |-> Zero]

EdTechModel_calculate_initial_state(self) ==
    LET p == self.parameters
    IN  [self EXCEPT
           !.current_digital_infrastructure =
               InitialValue(Get(p.infrastructure_development, "connectivity", Zero),
                            Get(p.technology_access, "device_availability", Zero), R(2, 10),
                            Get(p.digital_capacity, "technical_support", Zero), R(1, 10)),
           !.current_teacher_digital_competency =
               InitialValue(Get(p.digital_capacity, "teacher_training", Zero),
                            Get(p.pedagogical_integration, "tech_integration", Zero), R(1, 10),
                            Get(p.technology_access, "resource_availability", Zero), R(1, 10)),
           !.current_digital_content =
               InitialValue(Get(p.infrastructure_development, "content_platforms", Zero),
                            Get(p.technology_access, "content_access", Zero), R(1, 10),
                            Get(p.pedagogical_integration, "content_utilization", Zero), R(1, 10)),
           !.current_emerging_tech_adoption =
               InitialValue(Get(p.infrastructure_development, "innovation_readiness", Zero),
                            Get(p.digital_capacity, "technical_expertise", Zero), R(1, 10),
                            Get(p.pedagogical_integration, "innovative_practices", Zero), R(1, 10))]

EdTechModel_update_state(self, year) ==
    LET p == self.parameters
    IN  [self EXCEPT
           !.current_digital_infrastructure = Grow(self.current_digital_infrastructure, p.annual_infra_improvement_factor),
           !.current_teacher_digital_competency = Grow(self.current_teacher_digital_competency, p.annual_competency_improvement_factor),
           !.current_digital_content = Grow(self.current_digital_content, p.annual_content_improvement_factor),
           !.current_emerging_tech_adoption = Grow(self.current_emerging_tech_adoption, p.annual_adoption_improvement_factor)]

EdTechModel_row(self, year) ==
    [year |-> year,
     digital_infrastructure |-> self.current_digital_infrastructure,
     teacher_digital_competency |-> self.current_teacher_digital_competency,
     digital_content |-> self.current_digital_content,
     emerging_tech_adoption |-> self.current_emerging_tech_adoption]

(***************************************************************************)
(* FinanceModel (src/models/finance_model.py).                            *)
(***************************************************************************)
FinanceModel_init(parameters) ==
    [parameters |-> parameters,
     current_funding_adequacy |-> Zero,
     current_allocation_efficiency |-> Zero,
     current_financial_management |-> Zero,
     current_alternative_financing |-> Zero]

\* An initial-state computation that reads funding_stability with
\* setdefault, storing the default 0.0 in the revenue_generation mapping
\* when the driver is absent.
FinanceModel_calculate_initial_state_setdefault(self) ==
    LET p == self.parameters
        stored == [p EXCEPT !.revenue_generation =
                      DictSet(@, "funding_stability", Get(@, "funding_stability", Zero))]
    IN  [self EXCEPT
           !.parameters = stored,
           !.current_funding_adequacy =
               InitialValue(Get(p.revenue_generation, "budget_share", Zero),
                            Get(p.allocation_mechanisms, "equitable_distribution", Zero), R(5, 100),
                            Get(p.efficiency_measures, "resource_utilization", Zero), R(5, 100)),
           !.current_allocation_efficiency =
               InitialValue(Get(p.allocation_mechanisms, "targeting_accuracy", Zero),
                            Get(p.expenditure_patterns, "priority_alignment", Zero), R(1, 10),
                            Get(p.revenue_generation, "funding_stability", Zero), R(1, 10)),
           !.current_financial_management =
               InitialValue(Get(p.efficiency_measures, "budget_execution", Zero),
                            Get(p.allocation_mechanisms, "transparency", Zero), R(1, 10),
                            Get(p.expenditure_patterns, "accountability", Zero), R(1, 10)),
           !.current_alternative_financing =
               InitialValue(Get(p.revenue_generation, "private_sector", Zero),
                            Get(p.allocation_mechanisms, "partnership_effectiveness", Zero), R(1, 10),
                            Get(p.efficiency_measures, "cost_recovery", Zero), R(1, 10))]

FinanceModel_calculate_initial_state(self) ==
    LET p == self.parameters
    IN  [self EXCEPT
           !.current_funding_adequacy =
               InitialValue(Get(p.revenue_generation, "budget_share", Zero),
                            Get(p.allocation_mechanisms, "equitable_distribution", Zero), R(5, 100),
                            Get(p.efficiency_measures, "resource_utilization", Zero), R(5, 100)),
           !.current_allocation_efficiency =
               InitialValue(Get(p.allocation_mechanisms, "targeting_accuracy", Zero),
                            Get(p.expenditure_patterns, "priority_alignment", Zero), R(1, 10),
                            Get(p.revenue_generation, "funding_stability", Zero), R(1, 10)),
           !.current_financial_management =
               InitialValue(Get(p.efficiency_measures, "budget_execution", Zero),
                            Get(p.allocation_mechanisms, "transparency", Zero), R(1, 10),
                            Get(p.expenditure_patterns, "accountability", Zero), R(1, 10)),
           !.current_alternative_financing =
               InitialValue(Get(p.revenue_generation, "private_sector", Zero),
                            Get(p.allocation_mechanisms, "partnership_effectiveness", Zero), R(1, 10),
                            Get(p.efficiency_measures, "cost_recovery", Zero), R(1, 10))]

\* An update that treats funding adequacy like the other three indicators.
FinanceModel_update_state_multiplicative(self, year) ==
    LET p == self.parameters
    IN  [self EXCEPT
           !.current_funding_adequacy =
               Grow(self.current_funding_adequacy, p.annual_funding_change_factor),
           !.current_allocation_efficiency =
               Grow(self.current_allocation_efficiency, p.annual_efficiency_improvement_factor),
           !.current_financial_management =
               Grow(self.current_financial_management, p.annual_management_improvement_factor),
           !.current_alternative_financing =
               Grow(self.current_alternative_financing, p.annual_alternative_financing_growth_factor)]

FinanceModel_update_state(self, year) ==
    LET p == self.parameters
        fund_factor == p.annual_funding_change_factor
        effic_factor == p.annual_efficiency_improvement_factor
        mgmt_factor == p.annual_management_improvement_factor
        alt_factor == p.annual_alternative_financing_growth_factor
    IN  [self EXCEPT
           !.current_funding_adequacy =
               Min(Max(Add(self.current_funding_adequacy, fund_factor), Zero), One),
           !.current_allocation_efficiency = Grow(self.current_allocation_efficiency, effic_factor),
           !.current_financial_management = Grow(self.current_financial_management, mgmt_factor),
           !.current_alternative_financing = Grow(self.current_alternative_financing, alt_factor)]

FinanceModel_row(self, year) ==
    [year |-> year,
     funding_adequacy |-> self.current_funding_adequacy,
     allocation_efficiency |-> self.current_allocation_efficiency,
     financial_management |-> self.current_financial_management,
     alternative_financing |-> self.current_alternative_financing]

(***************************************************************************)
(* TeacherModel (src/models/teacher_model.py).  `self` holds params and   *)
(* the current_state dict; an omitted `state` argument (None) is passed   *)
(* as the empty dict, which Python treats the same way.                    *)
(***************************************************************************)
TeacherModel_calculate_teacher_quality(self, state) ==
    LET current_state == IF Truthy(state) THEN state ELSE self.current_state
        qualification_score == current_state["qualification_score"]
        experience_score == current_state["experience_score"]
        pd_effectiveness == current_state["pd_effectiveness"]
        quality_index == Add(Add(Mul(R(4, 10), qualification_score),
                                 Mul(R(3, 10), experience_score)),
                             Mul(R(3, 10), pd_effectiveness))
    IN  np_clip(quality_index, Zero, One)

TeacherModel_calculate_teaching_effectiveness(self, state) ==
    LET current_state == IF Truthy(state) THEN state ELSE self.current_state
        teacher_quality == IF "Teacher Quality" \in DOMAIN current_state
                           THEN current_state["Teacher Quality"] ELSE Half
        workload_score == current_state["workload_score"]
        motivation_score == current_state["motivation_score"]
        effectiveness_score == Sub(Add(Mul(R(5, 10), teacher_quality),
                                       Mul(R(3, 10), motivation_score)),
                                   Mul(R(2, 10), workload_score))
    IN  np_clip(effectiveness_score, Zero, One)

TeacherModel_calculate_teacher_motivation(self, state) ==
    LET current_state == IF Truthy(state) THEN state ELSE self.current_state
        workload_score == current_state["workload_score"]
        pd_effectiveness == current_state["pd_effectiveness"]
        satisfaction_index == current_state["motivation_score"]
        motivation_score == Sub(Add(Mul(R(6, 10), satisfaction_index),
                                    Mul(R(2, 10), pd_effectiveness)),
                                Mul(R(2, 10), workload_score))
    IN  np_clip(motivation_score, Zero, One)

\* An initial state that reads an absent driver as 0, as the generic models
\* do, instead of PD effectiveness 0.5, 40 hours and satisfaction 0.6.
TeacherModel_calculate_initial_state_zero_defaults(self) ==
    LET p == self.params
        qualification_score ==
            IF Truthy(p.qualification_distribution)
            THEN DivInt(SumValues(p.qualification_distribution), Len_(p.qualification_distribution))
            ELSE Zero
        experience_score ==
            IF Truthy(p.experience_levels)
            THEN DivInt(SumValues(p.experience_levels), Len_(p.experience_levels))
            ELSE Zero
        state0 == ("pd_effectiveness" :> Get(p.professional_development, "effectiveness", Zero))
                  @@ ("workload_score" :>
                          DivInt(Get(p.workload_factors, "average_hours", Zero), 50))
                  @@ ("motivation_score" :>
                          Get(p.motivation_indicators, "satisfaction_index", Zero))
                  @@ ("qualification_score" :> qualification_score)
                  @@ ("experience_score" :> experience_score)
        state1 == DictSet(state0, "Teacher Quality",
                          TeacherModel_calculate_teacher_quality(self, state0))
        state2 == DictSet(state1, "Teaching Effectiveness",
                          TeacherModel_calculate_teaching_effectiveness(self, state1))
    IN  DictSet(state2, "Teacher Motivation",
                TeacherModel_calculate_teacher_motivation(self, state2))

\* An initial state that gives an empty distribution the neutral score 0.5,
\* the default the effectiveness formula uses for a missing quality.
TeacherModel_calculate_initial_state_neutral_scores(self) ==
    LET p == self.params
        qualification_score ==
            IF Truthy(p.qualification_distribution)
            THEN DivInt(SumValues(p.qualification_distribution), Len_(p.qualification_distribution))
            ELSE Half
        experience_score ==
            IF Truthy(p.experience_levels)
            THEN DivInt(SumValues(p.experience_levels), Len_(p.experience_levels))
            ELSE Half
        state0 == ("pd_effectiveness" :> Get(p.professional_development, "effectiveness", Half))
                  @@ ("workload_score" :>
                          DivInt(Get(p.workload_factors, "average_hours", Num(40)), 50))
                  @@ ("motivation_score" :>
                          Get(p.motivation_indicators, "satisfaction_index", R(6, 10)))
                  @@ ("qualification_score" :> qualification_score)
                  @@ ("experience_score" :> experience_score)
        state1 == DictSet(state0, "Teacher Quality",
                          TeacherModel_calculate_teacher_quality(self, state0))
        state2 == DictSet(state1, "Teaching Effectiveness",
                          TeacherModel_calculate_teaching_effectiveness(self, state1))
    IN  DictSet(state2, "Teacher Motivation",
                TeacherModel_calculate_teacher_motivation(self, state2))

\* Returns the year-0 state dict; the caller assigns it to self.current_state.
TeacherModel_calculate_initial_state(self) ==
    LET p == self.params
        pd_effectiveness == Get(p.professional_development, "effectiveness", Half)
        workload_score == DivInt(Get(p.workload_factors, "average_hours", Num(40)), 50)
        motivation_score == Get(p.motivation_indicators, "satisfaction_index", R(6, 10))
        qualification_score ==
            IF Truthy(p.qualification_distribution)
            THEN DivInt(SumValues(p.qualification_distribution), Len_(p.qualification_distribution))
            ELSE Zero
        experience_score ==
            IF Truthy(p.experience_levels)
            THEN DivInt(SumValues(p.experience_levels), Len_(p.experience_levels))
            ELSE Zero
        state0 == ("pd_effectiveness" :> pd_effectiveness)
                  @@ ("workload_score" :> workload_score)
                  @@ ("motivation_score" :> motivation_score)
                  @@ ("qualification_score" :> qualification_score)
                  @@ ("experience_score" :> experience_score)
        state1 == DictSet(state0, "Teacher Quality",
                          TeacherModel_calculate_teacher_quality(self, state0))
        state2 == DictSet(state1, "Teaching Effectiveness",
                          TeacherModel_calculate_teaching_effectiveness(self, state1))
    IN  DictSet(state2, "Teacher Motivation",
                TeacherModel_calculate_teacher_motivation(self, state2))

TeacherModel_init(params) ==
    LET self0 == [params |-> params, current_state |-> EmptyDict]
    IN  [self0 EXCEPT !.current_state = TeacherModel_calculate_initial_state(self0)]

\* An update that recalculates the composites before the drivers are scaled,
\* so each row's composites belong to the previous year's drivers.
TeacherModel_update_state_stale_composites(self) ==
    LET p == self.params
        cs == self.current_state
        composites == [cs EXCEPT
            !["Teacher Quality"] = TeacherModel_calculate_teacher_quality(self, EmptyDict),
            !["Teaching Effectiveness"] =
                TeacherModel_calculate_teaching_effectiveness(self, EmptyDict),
            !["Teacher Motivation"] = TeacherModel_calculate_teacher_motivation(self, EmptyDict)]
    IN  [self EXCEPT !.current_state = [composites EXCEPT
            !["qualification_score"] =
                np_clip(Mul(@, Add(One, p.annual_qualification_improvement_factor)), Zero, One),
            !["experience_score"] =
                np_clip(Mul(@, Add(One, p.annual_experience_shift_factor)), Zero, One),
            !["pd_effectiveness"] =
                np_clip(Mul(@, Add(One, p.annual_pd_effectiveness_increase)), Zero, One),
            !["workload_score"] =
                np_clip(Mul(@, Add(One, p.annual_workload_change_factor)), Zero, Num(2)),
            !["motivation_score"] =
                np_clip(Mul(@, Add(One, p.annual_motivation_increase_factor)), Zero, One)]]

\* An update that scales each driver by (1 - factor), the way the access
\* model's dropout rule reads its factor.
TeacherModel_update_state_reducing(self) ==
    LET p == self.params
        cs == self.current_state
        scaled == [cs EXCEPT
            !["qualification_score"] =
                np_clip(Mul(@, Sub(One, p.annual_qualification_improvement_factor)), Zero, One),
            !["experience_score"] =
                np_clip(Mul(@, Sub(One, p.annual_experience_shift_factor)), Zero, One),
            !["pd_effectiveness"] =
                np_clip(Mul(@, Sub(One, p.annual_pd_effectiveness_increase)), Zero, One),
            !["workload_score"] =
                np_clip(Mul(@, Sub(One, p.annual_workload_change_factor)), Zero, Num(2)),
            !["motivation_score"] =
                np_clip(Mul(@, Sub(One, p.annual_motivation_increase_factor)), Zero, One)]
        self1 == [self EXCEPT !.current_state = scaled]
        self2 == [self1 EXCEPT !.current_state["Teacher Quality"] =
                      TeacherModel_calculate_teacher_quality(self1, EmptyDict)]
        self3 == [self2 EXCEPT !.current_state["Teaching Effectiveness"] =
                      TeacherModel_calculate_teaching_effectiveness(self2, EmptyDict)]
    IN  [self3 EXCEPT !.current_state["Teacher Motivation"] =
             TeacherModel_calculate_teacher_motivation(self3, EmptyDict)]

\* An update that scales all five drivers by the qualification factor.
TeacherModel_update_state_shared_factor(self) ==
    LET p == self.params
        cs == self.current_state
        growth == Add(One, p.annual_qualification_improvement_factor)
        scaled == [cs EXCEPT
            !["qualification_score"] = np_clip(Mul(@, growth), Zero, One),
            !["experience_score"] = np_clip(Mul(@, growth), Zero, One),
            !["pd_effectiveness"] = np_clip(Mul(@, growth), Zero, One),
            !["workload_score"] = np_clip(Mul(@, growth), Zero, Num(2)),
            !["motivation_score"] = np_clip(Mul(@, growth), Zero, One)]
        self1 == [self EXCEPT !.current_state = scaled]
        self2 == [self1 EXCEPT !.current_state["Teacher Quality"] =
                      TeacherModel_calculate_teacher_quality(self1, EmptyDict)]
        self3 == [self2 EXCEPT !.current_state["Teaching Effectiveness"] =
                      TeacherModel_calculate_teaching_effectiveness(self2, EmptyDict)]
    IN  [self3 EXCEPT !.current_state["Teacher Motivation"] =
             TeacherModel_calculate_teacher_motivation(self3, EmptyDict)]

TeacherModel_update_state(self) ==
    LET p == self.params
        cs == self.current_state
        \* apply annual changes, then clip
        scaled == [cs EXCEPT
            !["qualification_score"] =
                np_clip(Mul(@, Add(One, p.annual_qualification_improvement_factor)), Zero, One),
            !["experience_score"] =
                np_clip(Mul(@, Add(One, p.annual_experience_shift_factor)), Zero, One),
            !["pd_effectiveness"] =
                np_clip(Mul(@, Add(One, p.annual_pd_effectiveness_increase)), Zero, One),
            !["workload_score"] =
                np_clip(Mul(@, Add(One, p.annual_workload_change_factor)), Zero, Num(2)),
            !["motivation_score"] =
                np_clip(Mul(@, Add(One, p.annual_motivation_increase_factor)), Zero, One)]
        \* recalculate the composites, each from self.current_state as it then is
        self1 == [self EXCEPT !.current_state = scaled]
        self2 == [self1 EXCEPT !.current_state["Teacher Quality"] =
                      TeacherModel_calculate_teacher_quality(self1, EmptyDict)]
        self3 == [self2 EXCEPT !.current_state["Teaching Effectiveness"] =
                      TeacherModel_calculate_teaching_effectiveness(self2, EmptyDict)]
    IN  [self3 EXCEPT !.current_state["Teacher Motivation"] =
             TeacherModel_calculate_teacher_motivation(self3, EmptyDict)]

\* The row simulate_teacher_dynamics appends for `year`.
TeacherModel_row(self, year) ==
    ("Year" :> year)
    @@ ("Teacher Quality" :> self.current_state["Teacher Quality"])
    @@ ("Teaching Effectiveness" :> self.current_state["Teaching Effectiveness"])
    @@ ("Teacher Motivation" :> self.current_state["Teacher Motivation"])
    @@ ("Qualification Score" :> self.current_state["qualification_score"])
    @@ ("Experience Score" :> self.current_state["experience_score"])
    @@ ("PD Effectiveness" :> self.current_state["pd_effectiveness"])
    @@ ("Workload Score" :> self.current_state["workload_score"])
    @@ ("Motivation Score" :> self.current_state["motivation_score"])

(***************************************************************************)
(* BangladeshEducationSimulation (src/simulation/main.py): the            *)
(* orchestrator.  __init__ reads the configuration mapping and constructs *)
(* the seven models.                                                       *)
(***************************************************************************)
Sectors == <<"access", "quality", "teachers", "institutions", "curriculum", "edtech", "finance">>
GenericSectors == {"access", "quality", "institutions", "curriculum", "edtech", "finance"}

BangladeshEducationSimulation_init(config) ==
    LET
        access_params_dict == Get(config, "access_params", EmptyDict)
        quality_params_dict == Get(config, "quality_params", EmptyDict)
        teacher_params_dict == Get(config, "teacher_params", EmptyDict)
        institution_params_dict == Get(config, "institution_params", EmptyDict)
        curriculum_params_dict == Get(config, "curriculum_params", EmptyDict)
        edtech_params_dict == Get(config, "edtech_params", EmptyDict)
        finance_params_dict == Get(config, "finance_params", EmptyDict)
    IN
    [config |-> config,
     years |-> IF "simulation_years" \in DOMAIN config THEN config["simulation_years"] ELSE 25,
     access |->
         AccessModel_init(
             [population_demographics |-> Get(config, "population_demographics", EmptyDict),
              geographic_distribution |-> Get(config, "geographic_distribution", EmptyDict),
              socioeconomic_factors |-> Get(config, "socioeconomic_factors", EmptyDict),
              institutional_capacity |-> Get(config, "institutional_capacity", EmptyDict),
              incentive_programs |-> Get(config, "incentive_programs", EmptyDict),
              physical_infrastructure |-> Get(config, "physical_infrastructure", EmptyDict),
              annual_enrollment_growth_factor |->
                 Get(access_params_dict, "annual_enrollment_growth_factor", R(5, 1000)),
              annual_transition_improvement_factor |->
                 Get(access_params_dict, "annual_transition_improvement_factor", R(7, 1000)),
              annual_dropout_reduction_factor |->
                 Get(access_params_dict, "annual_dropout_reduction_factor", R(1, 100))]),
     quality |->
         QualityModel_init(
             [teaching_practices |-> Get(config, "teaching_practices", EmptyDict),
              learning_environments |-> Get(config, "learning_environments", EmptyDict),
              assessment_systems |-> Get(config, "assessment_systems", EmptyDict),
              curricular_implementation |-> Get(config, "curricular_implementation", EmptyDict),
              annual_quality_improvement_factor |->
                 Get(quality_params_dict, "annual_quality_improvement_factor", R(6, 1000))]),
     teachers |->
         TeacherModel_init(
             [qualification_distribution |-> Get(teacher_params_dict, "qualification_distribution", EmptyDict),
              experience_levels |-> Get(teacher_params_dict, "experience_levels", EmptyDict),
              professional_development |-> Get(teacher_params_dict, "professional_development", EmptyDict),
              workload_factors |-> Get(teacher_params_dict, "workload_factors", EmptyDict),
              motivation_indicators |-> Get(teacher_params_dict, "motivation_indicators", EmptyDict),
              annual_qualification_improvement_factor |->
                 Get(teacher_params_dict, "annual_qualification_improvement_factor", R(1, 100)),
              annual_experience_shift_factor |->
                 Get(teacher_params_dict, "annual_experience_shift_factor", R(15, 1000)),
              annual_pd_effectiveness_increase |->
                 Get(teacher_params_dict, "annual_pd_effectiveness_increase", R(2, 100)),
              annual_workload_change_factor |->
                 Get(teacher_params_dict, "annual_workload_change_factor", R(5, 1000)),
              annual_motivation_increase_factor |->
                 Get(teacher_params_dict, "annual_motivation_increase_factor", R(1, 100))]),
     institutions |->
         InstitutionModel_init(
             [governance_structures |-> Get(config, "governance_structures", EmptyDict),
              management_practices |-> Get(config, "management_practices", EmptyDict),
              resource_allocation |-> Get(config, "resource_allocation", EmptyDict),
              institutional_culture |-> Get(config, "institutional_culture", EmptyDict),
              annual_leadership_improvement_factor |->
                 Get(institution_params_dict, "annual_leadership_improvement_factor", R(5, 1000)),
              annual_engagement_improvement_factor |->
                 Get(institution_params_dict, "annual_engagement_improvement_factor", R(6, 1000)),
              annual_resource_util_improvement_factor |->
                 Get(institution_params_dict, "annual_resource_util_improvement_factor", R(4, 1000)),
              annual_culture_improvement_factor |->
                 Get(institution_params_dict, "annual_culture_improvement_factor", R(3, 1000))]),
     curriculum |->
         CurriculumModel_init(
             [content_development |-> Get(config, "content_development", EmptyDict),
              competency_frameworks |-> Get(config, "competency_frameworks", EmptyDict),
              instructional_methods |-> Get(config, "instructional_methods", EmptyDict),
              learning_materials |-> Get(config, "learning_materials", EmptyDict),
              annual_relevance_improvement_factor |->
                 Get(curriculum_params_dict, "annual_relevance_improvement_factor", R(8, 1000)),
              annual_skills_improvement_factor |->
                 Get(curriculum_params_dict, "annual_skills_improvement_factor", R(10, 1000)),
              annual_materials_improvement_factor |->
                 Get(curriculum_params_dict, "annual_materials_improvement_factor", R(5, 1000)),
              annual_innovation_improvement_factor |->
                 Get(curriculum_params_dict, "annual_innovation_improvement_factor", R(7, 1000))]),
     edtech |->
         EdTechModel_init(
             [infrastructure_development |-> Get(config, "infrastructure_development", EmptyDict),
              technology_access |-> Get(config, "technology_access", EmptyDict),
              digital_capacity |-> Get(config, "digital_capacity", EmptyDict),
              pedagogical_integration |-> Get(config, "pedagogical_integration", EmptyDict),
              annual_infra_improvement_factor |->
                 Get(edtech_params_dict, "annual_infra_improvement_factor", R(15, 1000)),
              annual_competency_improvement_factor |->
                 Get(edtech_params_dict, "annual_competency_improvement_factor", R(12, 1000)),
              annual_content_improvement_factor |->
                 Get(edtech_params_dict, "annual_content_improvement_factor", R(10, 1000)),
              annual_adoption_improvement_factor |->
                 Get(edtech_params_dict, "annual_adoption_improvement_factor", R(8, 1000))]),
     finance |->
         FinanceModel_init(
             [revenue_generation |-> Get(config, "revenue_generation", EmptyDict),
              allocation_mechanisms |-> Get(config, "allocation_mechanisms", EmptyDict),
              expenditure_patterns |-> Get(config, "expenditure_patterns", EmptyDict),
              efficiency_measures |-> Get(config, "efficiency_measures", EmptyDict),
              annual_funding_change_factor |->
                 Get(finance_params_dict, "annual_funding_change_factor", R(0, 1)),
              annual_efficiency_improvement_factor |->
                 Get(finance_params_dict, "annual_efficiency_improvement_factor", R(0, 1)),
              annual_management_improvement_factor |->
                 Get(finance_params_dict, "annual_management_improvement_factor", R(0, 1)),
              annual_alternative_financing_growth_factor |->
                 Get(finance_params_dict, "annual_alternative_financing_growth_factor", R(0, 1))])]

(***************************************************************************)
(* Configuration mappings the orchestrator is constructed with.           *)
(*                                                                         *)
(* A configuration is BaselineConfig with the blocks of one sector        *)
(* replaced: the sector whose model the client calls directly, or any one *)
(* sector when the client drives the orchestrator.  "Kinetic" blocks give *)
(* base drivers in {0, 1/2, 1} without modifiers and non-zero factors;    *)
(* "static" blocks give every driver its own value and growth factor 0,   *)
(* so that the exact rationals of a whole run stay within TLC's integers. *)
(***************************************************************************)
\* Base-driver patterns for the four indicators of a generic sector.
BasePatterns == {<<Half, Zero, One, Half>>, <<One, Half, Half, Zero>>}
\* Annual factors of the diminishing-returns indicators.
GrowthFactors == {Num(0 - 3), Num(0 - 1), Num(1), Num(3)}
\* annual_dropout_reduction_factor
DropoutFactors == {R(0 - 1, 2), R(0 - 1, 10), R(1, 4), Half, One}
\* annual_funding_change_factor
FundingFactors == {R(0 - 1, 20), R(0 - 1, 10), R(2, 5)}
\* Teacher annual factors (one value for all five).
TeacherFactors == {Num(0 - 2), R(0 - 1, 2), Zero, Half}
\* workload_factors.average_hours
AverageHours == {Num(0), Num(45), Num(120)}

AccessBlocks(b, f, fd, poverty) ==
    [population_demographics |-> [primary_age_population |-> b[1]],
     institutional_capacity |-> [secondary_schools |-> b[2]],
     socioeconomic_factors |-> [poverty_rate |-> poverty],
     access_params |-> [annual_enrollment_growth_factor |-> f,
                        annual_transition_improvement_factor |-> f,
                        annual_dropout_reduction_factor |-> fd]]

AccessStatic ==
    [population_demographics |-> [primary_age_population |-> R(98, 100)],
     physical_infrastructure |-> [school_density |-> R(6, 10), school_quality |-> R(1, 2)],
     incentive_programs |-> [stipend_coverage |-> R(5, 10), dropout_prevention |-> R(2, 5)],
     institutional_capacity |-> [secondary_schools |-> R(7, 10)],
     socioeconomic_factors |-> [household_income |-> R(1, 2), poverty_rate |-> R(1, 4)],
     geographic_distribution |-> [transportation_access |-> R(3, 5)],
     access_params |-> [annual_enrollment_growth_factor |-> Zero,
                        annual_transition_improvement_factor |-> Zero,
                        annual_dropout_reduction_factor |-> Half]]

QualityBlocks(b, f) ==
    [teaching_practices |-> [reading_instruction_quality |-> b[1],
                             math_instruction_quality |-> b[2],
                             critical_thinking_emphasis |-> b[3],
                             science_instruction_quality |-> b[4]],
     quality_params |-> [annual_quality_improvement_factor |-> f]]

QualityStatic ==
    [teaching_practices |-> [reading_instruction_quality |-> R(3, 5),
                             math_instruction_quality |-> R(1, 2),
                             critical_thinking_emphasis |-> R(2, 5),
                             science_instruction_quality |-> R(19, 20)],
     learning_environments |-> [classroom_quality |-> R(1, 2),
                                student_engagement |-> R(3, 5),
                                lab_facilities |-> One],
     assessment_systems |-> [reading_assessment_frequency |-> R(1, 5),
                             math_assessment_frequency |-> R(4, 5)],
     curricular_implementation |-> [math_curriculum_quality |-> R(3, 10),
                                    critical_thinking_integration |-> R(7, 10),
                                    science_curriculum_quality |-> One],
     quality_params |-> [annual_quality_improvement_factor |-> Zero]]

InstitutionBlocks(b, f) ==
    [governance_structures |-> [leadership_quality |-> b[1], community_participation |-> b[2]],
     resource_allocation |-> [resource_efficiency |-> b[3]],
     institutional_culture |-> [school_climate |-> b[4]],
     institution_params |-> [annual_leadership_improvement_factor |-> f,
                             annual_engagement_improvement_factor |-> f,
                             annual_resource_util_improvement_factor |-> f,
                             annual_culture_improvement_factor |-> f]]

InstitutionStatic ==
    [governance_structures |-> [leadership_quality |-> R(3, 5),
                                community_participation |-> R(1, 2),
                                accountability |-> R(7, 10),
                                vision_alignment |-> R(1, 5)],
     management_practices |-> [strategic_planning |-> R(1, 2),
                               community_outreach |-> R(3, 10),
                               financial_management |-> R(4, 5),
                               staff_morale |-> R(3, 5)],
     resource_allocation |-> [budget_management |-> R(2, 5), resource_efficiency |-> R(9, 10)],
     institutional_culture |-> [parent_involvement |-> R(1, 10), school_climate |-> R(19, 20)],
     institution_params |-> [annual_leadership_improvement_factor |-> Zero,
                             annual_engagement_improvement_factor |-> Zero,
                             annual_resource_util_improvement_factor |-> Zero,
                             annual_culture_improvement_factor |-> Zero]]

CurriculumBlocks(b, f) ==
    [content_development |-> [content_quality |-> b[1]],
     competency_frameworks |-> [critical_thinking |-> b[2]],
     learning_materials |-> [textbook_quality |-> b[3]],
     instructional_methods |-> [active_learning |-> b[4]],
     curriculum_params |-> [annual_relevance_improvement_factor |-> f,
                            annual_skills_improvement_factor |-> f,
                            annual_materials_improvement_factor |-> f,
                            annual_innovation_improvement_factor |-> f]]

CurriculumStatic ==
    [content_development |-> [content_quality |-> R(3, 5),
                              digital_literacy |-> R(1, 2),
                              supplementary_materials |-> R(3, 10),
                              digital_content |-> R(1, 5)],
     competency_frameworks |-> [skill_alignment |-> R(1, 2),
                                critical_thinking |-> R(2, 5),
                                assessment_innovation |-> R(7, 10)],
     instructional_methods |-> [pedagogical_effectiveness |-> R(4, 5),
                                collaborative_learning |-> R(3, 5),
                                resource_utilization |-> One,
                                active_learning |-> R(9, 10)],
     learning_materials |-> [textbook_quality |-> R(19, 20)],
     curriculum_params |-> [annual_relevance_improvement_factor |-> Zero,
                            annual_skills_improvement_factor |-> Zero,
                            annual_materials_improvement_factor |-> Zero,
                            annual_innovation_improvement_factor |-> Zero]]

EdTechBlocks(b, f) ==
    [infrastructure_development |-> [connectivity |-> b[1],
                                     content_platforms |-> b[3],
                                     innovation_readiness |-> b[4]],
     digital_capacity |-> [teacher_training |-> b[2]],
     edtech_params |-> [annual_infra_improvement_factor |-> f,
                        annual_competency_improvement_factor |-> f,
                        annual_content_improvement_factor |-> f,
                        annual_adoption_improvement_factor |-> f]]

EdTechStatic ==
    [infrastructure_development |-> [connectivity |-> R(3, 5),
                                     content_platforms |-> R(1, 2),
                                     innovation_readiness |-> R(2, 5)],
     technology_access |-> [device_availability |-> R(1, 2),
                            resource_availability |-> R(3, 10),
                            content_access |-> R(4, 5)],
     digital_capacity |-> [technical_support |-> R(1, 5),
                           teacher_training |-> R(9, 10),
                           technical_expertise |-> R(7, 10)],
     pedagogical_integration |-> [tech_integration |-> R(3, 5),
                                  content_utilization |-> One,
                                  innovative_practices |-> R(1, 10)],
     edtech_params |-> [annual_infra_improvement_factor |-> Zero,
                        annual_competency_improvement_factor |-> Zero,
                        annual_content_improvement_factor |-> Zero,
                        annual_adoption_improvement_factor |-> Zero]]

FinanceBlocks(b, f, ff) ==
    [revenue_generation |-> [budget_share |-> R(1, 5), private_sector |-> b[4]],
     allocation_mechanisms |-> [targeting_accuracy |-> b[2]],
     efficiency_measures |-> [budget_execution |-> b[3]],
     finance_params |-> [annual_funding_change_factor |-> ff,
                         annual_efficiency_improvement_factor |-> f,
                         annual_management_improvement_factor |-> f,
                         annual_alternative_financing_growth_factor |-> f]]

FinanceStatic ==
    [revenue_generation |-> [budget_share |-> R(3, 5),
                             funding_stability |-> R(1, 2),
                             private_sector |-> R(2, 5)],
     allocation_mechanisms |-> [equitable_distribution |-> R(1, 2),
                                targeting_accuracy |-> R(7, 10),
                                transparency |-> R(3, 10),
                                partnership_effectiveness |-> R(4, 5)],
     expenditure_patterns |-> [priority_alignment |-> R(3, 5), accountability |-> One],
     efficiency_measures |-> [resource_utilization |-> R(1, 5),
                              budget_execution |-> R(9, 10),
                              cost_recovery |-> R(1, 10)],
     finance_params |-> [annual_funding_change_factor |-> R(1, 10),
                         annual_efficiency_improvement_factor |-> Zero,
                         annual_management_improvement_factor |-> Zero,
                         annual_alternative_financing_growth_factor |-> Zero]]

TeacherBlocks(hours, f) ==
    [teacher_params |->
        [qualification_distribution |-> [graduate |-> R(3, 5), post_graduate |-> R(2, 5)],
         experience_levels |-> [less_than_5_years |-> R(1, 2), more_than_10_years |-> One],
         professional_development |-> [effectiveness |-> R(3, 5)],
         workload_factors |-> [average_hours |-> hours],
         motivation_indicators |-> [satisfaction_index |-> R(4, 5)],
         annual_qualification_improvement_factor |-> f,
         annual_experience_shift_factor |-> f,
         annual_pd_effectiveness_increase |-> f,
         annual_workload_change_factor |-> f,
         annual_motivation_increase_factor |-> f]]

\* Every sector configured, with factors that keep all seven runs exact.
BaselineConfig ==
    AccessBlocks(<<Half, One, Zero, Zero>>, One, Half, One)
    @@ QualityBlocks(<<Half, Zero, One, Half>>, One)
    @@ InstitutionBlocks(<<Half, Zero, One, Half>>, One)
    @@ CurriculumBlocks(<<Half, Zero, One, Half>>, One)
    @@ EdTechBlocks(<<Half, Zero, One, Half>>, One)
    @@ FinanceBlocks(<<Half, Zero, One, Half>>, One, R(0 - 1, 20))
    @@ TeacherBlocks(Num(45), Half)
    @@ [simulation_years |-> 3]

\* The blocks a configuration may give the sector under study.
BlocksOf(s) ==
    CASE s = "access" ->
           {AccessBlocks(k[1], k[2], fd, k[3]) :
               k \in {<<<<Half, Zero, One, Half>>, Num(0 - 3), One>>,
                      <<<<One, Half, Half, Zero>>, Num(1), Half>>},
               fd \in DropoutFactors} \cup {AccessStatic}
      [] s = "quality" ->
           {QualityBlocks(b, f) : b \in BasePatterns, f \in GrowthFactors} \cup {QualityStatic}
      [] s = "institutions" ->
           {InstitutionBlocks(b, f) : b \in BasePatterns, f \in GrowthFactors}
               \cup {InstitutionStatic}
      [] s = "curriculum" ->
           {CurriculumBlocks(b, f) : b \in BasePatterns, f \in GrowthFactors}
               \cup {CurriculumStatic}
      [] s = "edtech" ->
           {EdTechBlocks(b, f) : b \in BasePatterns, f \in GrowthFactors} \cup {EdTechStatic}
      [] s = "finance" ->
           {FinanceBlocks(k[1], k[2], ff) :
               k \in {<<<<Half, Zero, One, Half>>, Num(0 - 1)>>,
                      <<<<One, Half, Half, Zero>>, Num(3)>>},
               ff \in FundingFactors} \cup {FinanceStatic}
      [] s = "teachers" ->
           {TeacherBlocks(h, f) : h \in AverageHours, f \in TeacherFactors}
      [] s = "orchestrator" ->
           {EmptyDict, AccessStatic, QualityStatic, InstitutionStatic, CurriculumStatic,
            EdTechStatic, FinanceStatic, TeacherBlocks(Num(120), Zero),
            AccessBlocks(<<One, Half, Half, Zero>>, Num(0 - 3), R(0 - 1, 2), One),
            FinanceBlocks(<<One, Half, Half, Zero>>, Num(3), R(0 - 1, 10)),
            [simulation_years |-> 2]}

SectorSet == {Sectors[i] : i \in 1..Len(Sectors)}

(***************************************************************************)
(* Dispatch over the six generic models, whose simulate methods are the   *)
(* same loop over different attribute names.                               *)
(***************************************************************************)
\* The indicators a model updates with Grow, each with the annual factor its
\* update_state passes.
GrowthColumns(s) ==
    CASE s = "access" ->
           "primary_enrollment" :> "annual_enrollment_growth_factor"
           @@ "secondary_transition" :> "annual_transition_improvement_factor"
      [] s = "quality" ->
           [c \in {"reading_proficiency", "numeracy_skills", "critical_thinking",
                   "science_literacy"} |-> "annual_quality_improvement_factor"]
      [] s = "institutions" ->
           "leadership_effectiveness" :> "annual_leadership_improvement_factor"
           @@ "community_engagement" :> "annual_engagement_improvement_factor"
           @@ "resource_utilization" :> "annual_resource_util_improvement_factor"
           @@ "institutional_culture" :> "annual_culture_improvement_factor"
      [] s = "curriculum" ->
           "curriculum_relevance" :> "annual_relevance_improvement_factor"
           @@ "21st_century_skills" :> "annual_skills_improvement_factor"
           @@ "learning_materials" :> "annual_materials_improvement_factor"
           @@ "pedagogical_innovation" :> "annual_innovation_improvement_factor"
      [] s = "edtech" ->
           "digital_infrastructure" :> "annual_infra_improvement_factor"
           @@ "teacher_digital_competency" :> "annual_competency_improvement_factor"
           @@ "digital_content" :> "annual_content_improvement_factor"
           @@ "emerging_tech_adoption" :> "annual_adoption_improvement_factor"
      [] s = "finance" ->
           "allocation_efficiency" :> "annual_efficiency_improvement_factor"
           @@ "financial_management" :> "annual_management_improvement_factor"
           @@ "alternative_financing" :> "annual_alternative_financing_growth_factor"

calculate_initial_state(s, self) ==
    CASE s = "access" -> AccessModel_calculate_initial_state(self)
      [] s = "quality" -> QualityModel_calculate_initial_state(self)
      [] s = "institutions" -> InstitutionModel_calculate_initial_state(self)
      [] s = "curriculum" -> CurriculumModel_calculate_initial_state(self)
      [] s = "edtech" -> EdTechModel_calculate_initial_state(self)
      [] s = "finance" -> FinanceModel_calculate_initial_state(self)

update_state(s, self, year) ==
    CASE s = "access" -> AccessModel_update_state(self, year)
      [] s = "quality" -> QualityModel_update_state(self, year)
      [] s = "institutions" -> InstitutionModel_update_state(self, year)
      [] s = "curriculum" -> CurriculumModel_update_state(self, year)
      [] s = "edtech" -> EdTechModel_update_state(self, year)
      [] s = "finance" -> FinanceModel_update_state(self, year)

row(s, self, year) ==
    CASE s = "access" -> AccessModel_row(self, year)
      [] s = "quality" -> QualityModel_row(self, year)
      [] s = "institutions" -> InstitutionModel_row(self, year)
      [] s = "curriculum" -> CurriculumModel_row(self, year)
      [] s = "edtech" -> EdTechModel_row(self, year)
      [] s = "finance" -> FinanceModel_row(self, year)

(***************************************************************************)
(* pandas: DataFrame(list of row dicts) and DataFrame.set_index.          *)
(***************************************************************************)
\* pd.DataFrame(results): a default 0..n-1 index, one column per row key.
DataFrame(results) ==
    [index |-> [i \in 1..Len(results) |-> i - 1], rows |-> results]

\* df.set_index(key) fails with KeyError when `key` is not a column, which is
\* the case for the column-less frame built from an empty list.
HasColumn(df, key) == Len(df.rows) > 0 /\ key \in DOMAIN df.rows[1]

set_index(df, key) ==
    [index |-> [i \in 1..Len(df.rows) |-> df.rows[i][key]],
     rows |-> [i \in 1..Len(df.rows) |->
                  [c \in DOMAIN df.rows[i] \ {key} |-> df.rows[i][c]]]]

\* The columns of a frame, and the values of one column in row order.
ColumnsOf(df) == IF Len(df.rows) = 0 THEN {} ELSE DOMAIN df.rows[1]
SeriesOf(df, column) == [i \in 1..Len(df.rows) |-> df.rows[i][column]]

RECURSIVE SeqSum(_)
SeqSum(v) == IF Len(v) = 0 THEN Zero ELSE Add(Head(v), SeqSum(Tail(v)))

\* float('nan')
NaN == [nan |-> TRUE]
\* Series.mean(): NaN over no values.
SeriesMean(v) == IF Len(v) = 0 THEN NaN ELSE DivInt(SeqSum(v), Len(v))
\* The population standard deviation (ddof = 0), which is 0 over one value.
SeriesStdPopulation(v) ==
    IF Len(v) = 0 THEN NaN ELSE IF Len(v) = 1 THEN Zero ELSE [sample_std_of |-> v]

\* Series.std() (ddof = 1): NaN over fewer than two values; otherwise the
\* sample standard deviation of the values, kept as a term over them since a
\* square root has no exact rational value.
SeriesStd(v) == IF Len(v) < 2 THEN NaN ELSE [sample_std_of |-> v]

(***************************************************************************)
(* BangladeshEducationSimulation.analyze_results(results).                *)
(***************************************************************************)
\* str.lower().replace(' ', '_') on the column names the models produce; the
\* generic models' column names are lowercase without spaces already.
lower_replace(column) ==
    CASE column = "Teacher Quality" -> "teacher_quality"
      [] column = "Teaching Effectiveness" -> "teaching_effectiveness"
      [] column = "Teacher Motivation" -> "teacher_motivation"
      [] column = "Qualification Score" -> "qualification_score"
      [] column = "Experience Score" -> "experience_score"
      [] column = "PD Effectiveness" -> "pd_effectiveness"
      [] column = "Workload Score" -> "workload_score"
      [] column = "Motivation Score" -> "motivation_score"
      [] OTHER -> column

\* f'{component}_{column}_mean' and its .lower().replace(' ', '_') form;
\* component names and suffixes are lowercase already.
original_key(component, column, suffix) == component \o "_" \o column \o suffix
lowercase_key(component, column, suffix) ==
    component \o "_" \o lower_replace(column) \o suffix

\* The loop body with the lowercase mean key given the column's last value.
ColumnEntriesAliasLastValue(component, df, column) ==
    {<<original_key(component, column, "_mean"), SeriesMean(SeriesOf(df, column))>>,
     <<lowercase_key(component, column, "_mean"), df.rows[Len(df.rows)][column]>>,
     <<original_key(component, column, "_std"), SeriesStd(SeriesOf(df, column))>>,
     <<lowercase_key(component, column, "_std"), SeriesStd(SeriesOf(df, column))>>}

\* The four assignments the loop body makes for one column.
ColumnEntries(component, df, column) ==
    {<<original_key(component, column, "_mean"), SeriesMean(SeriesOf(df, column))>>,
     <<lowercase_key(component, column, "_mean"), SeriesMean(SeriesOf(df, column))>>,
     <<original_key(component, column, "_std"), SeriesStd(SeriesOf(df, column))>>,
     <<lowercase_key(component, column, "_std"), SeriesStd(SeriesOf(df, column))>>}

\* The 'Average ...' keys: label, component, column.
KeyMetrics ==
    {<<"Average Teacher Quality", "teachers", "Teacher Quality">>,
     <<"Average Teaching Effectiveness", "teachers", "Teaching Effectiveness">>,
     <<"Average Teacher Motivation", "teachers", "Teacher Motivation">>,
     <<"Average Leadership Effectiveness", "institutions", "leadership_effectiveness">>,
     <<"Average Community Engagement", "institutions", "community_engagement">>,
     <<"Average Curriculum Relevance", "curriculum", "curriculum_relevance">>,
     <<"Average 21st Century Skills", "curriculum", "21st_century_skills">>,
     <<"Average Digital Infrastructure", "edtech", "digital_infrastructure">>,
     <<"Average Teacher Digital Competency", "edtech", "teacher_digital_competency">>,
     <<"Average Funding Adequacy", "finance", "funding_adequacy">>,
     <<"Average Allocation Efficiency", "finance", "allocation_efficiency">>}

\* The dict a set of assignments analysis[key] = value builds.  Two loop
\* assignments to the same key come from the same column and carry the same
\* value, so the order in which they are applied does not matter.
AssignAll(entries) ==
    [k \in {e[1] : e \in entries} |-> (CHOOSE e \in entries : e[1] = k)[2]]

\* results[component][column] raises KeyError when either is missing.
analyze_results_raises(results) ==
    \E m \in KeyMetrics :
        m[2] \notin DOMAIN results \/ m[3] \notin ColumnsOf(results[m[2]])

analyze_results(results) ==
    LET loop == UNION {UNION {ColumnEntries(component, results[component], column) :
                                 column \in ColumnsOf(results[component]) \ {"year"}} :
                          component \in DOMAIN results}
        metrics == {<<m[1], SeriesMean(SeriesOf(results[m[2]], m[3]))>> : m \in KeyMetrics}
    IN  \* the 'Average ...' assignments come last
        AssignAll(metrics) @@ AssignAll(loop)

(***************************************************************************)
(* State.                                                                  *)
(***************************************************************************)
VARIABLES
    sim,     \* the BangladeshEducationSimulation instance and its seven models
    focus,   \* what the client drives: one sector's model, or "orchestrator"
    frame,   \* per sector: the simulate_*_dynamics call in progress, if any
    run,     \* the run_simulation call in progress, if any
    ret,     \* what the last completed call returned or raised, until the next call
    age,     \* per sector: update_state calls since the state was last computed
    initialised  \* per sector: the initial state has been computed

vars == <<sim, focus, frame, run, ret, age, initialised>>

\* Horizons passed to simulate and run_simulation: -1 .. MaxYears.
MaxYears == 4
\* update_state calls the client makes in a row on one state.
MaxUpdates == 3
YearArgs == (0 - 1)..MaxYears
\* Values of the unused `year` argument of update_state.
UpdateYearArgs == {0, 7}

IdleFrame == [pc |-> "idle"]
IdleRun == [pc |-> "idle"]
NoReturn == [op |-> "none"]

\* What a call that recomputes the initial state found on entry: whether the
\* state had been computed before, how many updates it had seen since, and
\* whether recomputing changed it.
Found(s, differs) ==
    [initialised |-> initialised[s], age |-> age[s], differs |-> differs]

Quiescent == run.pc = "idle" /\ \A s \in SectorSet : frame[s].pc = "idle"

Init ==
    /\ focus \in SectorSet \cup {"orchestrator"}
    /\ \E blocks \in BlocksOf(focus) :
           sim = BangladeshEducationSimulation_init(blocks @@ BaselineConfig)
    /\ frame = [s \in SectorSet |-> IdleFrame]
    /\ run = IdleRun
    /\ ret = NoReturn
    /\ age = [s \in SectorSet |-> 0]
    \* TeacherModel.__init__ computes the initial state; the others do not.
    /\ initialised = [s \in SectorSet |-> s = "teachers"]

(***************************************************************************)
(* Direct calls of the client on the model under study.                   *)
(***************************************************************************)
\* model._calculate_initial_state() on a generic model: recomputes State.
CallCalculateInitialState(s) ==
    /\ Quiescent /\ s = focus /\ s \in GenericSectors
    /\ sim' = [sim EXCEPT ![s] = calculate_initial_state(s, sim[s])]
    /\ age' = [age EXCEPT ![s] = 0]
    /\ initialised' = [initialised EXCEPT ![s] = TRUE]
    /\ ret' = [op |-> "_calculate_initial_state", sector |-> s, status |-> "ok",
               found |-> Found(s, sim'[s] # sim[s])]
    /\ UNCHANGED <<focus, frame, run>>

\* teachers._calculate_initial_state(): returns the state dict, assigns nothing.
CallTeacherCalculateInitialState ==
    /\ Quiescent /\ focus = "teachers"
    /\ ret' = [op |-> "_calculate_initial_state", sector |-> "teachers", status |-> "ok",
               found |-> Found("teachers", TeacherModel_calculate_initial_state(sim.teachers)
                                                # sim.teachers.current_state),
               value |-> TeacherModel_calculate_initial_state(sim.teachers)]
    /\ UNCHANGED <<sim, focus, frame, run, age, initialised>>

\* model.update_state(year) on a generic model.
CallUpdateState(s, year) ==
    /\ Quiescent /\ s = focus /\ s \in GenericSectors
    /\ age[s] < MaxUpdates
    /\ sim' = [sim EXCEPT ![s] = update_state(s, sim[s], year)]
    /\ age' = [age EXCEPT ![s] = @ + 1]
    /\ ret' = [op |-> "update_state", sector |-> s, status |-> "ok"]
    /\ UNCHANGED <<focus, frame, run, initialised>>

\* teachers.update_state()
CallTeacherUpdateState ==
    /\ Quiescent /\ focus = "teachers"
    /\ age["teachers"] < MaxUpdates
    /\ sim' = [sim EXCEPT !.teachers = TeacherModel_update_state(sim.teachers)]
    /\ age' = [age EXCEPT !["teachers"] = @ + 1]
    /\ ret' = [op |-> "update_state", sector |-> "teachers", status |-> "ok"]
    /\ UNCHANGED <<focus, frame, run, initialised>>

(***************************************************************************)
(* simulate_<sector>_dynamics(years) of a generic model, one loop          *)
(* iteration per step.                                                     *)
(***************************************************************************)
\* Entry without the reset: the run continues from whatever state it finds.
simulate_begin_stale(s, self) == self

\* Entry: set the state for year 0.
simulate_begin(s, self) == calculate_initial_state(s, self)

\* A call is made by the client (on the model it drives, when nothing else
\* runs) or by run_simulation (on the sector whose turn it is).  Under the
\* any-order schedule run_simulation may call any sector it has not called yet.
MayCall(s, caller) ==
    \/ caller = "client" /\ Quiescent /\ s = focus
    \/ /\ caller = "run" /\ run.pc = "running" /\ frame[s].pc = "idle"
       /\ run.idx <= Len(Sectors) /\ Sectors[run.idx] = s
    \/ /\ caller = "run" /\ run.pc = "scattered" /\ frame[s].pc = "idle"
       /\ s \notin DOMAIN run.results

SimulateBegin(s, years, caller) ==
    /\ s \in GenericSectors
    /\ MayCall(s, caller)
    /\ caller = "run" => years = run.years
    /\ LET self == simulate_begin(s, sim[s])
       IN  /\ sim' = [sim EXCEPT ![s] = self]
           /\ frame' = [frame EXCEPT ![s] =
                  [pc |-> "loop", caller |-> caller, years |-> years, year |-> 1,
                   found |-> Found(s, self # sim[s]), results |-> <<row(s, self, 0)>>]]
    /\ age' = [age EXCEPT ![s] = 0]
    /\ initialised' = [initialised EXCEPT ![s] = TRUE]
    /\ ret' = IF caller = "client" THEN NoReturn ELSE ret
    /\ UNCHANGED <<focus, run>>

\* A loop iteration in which the access model also overwrites an indicator of
\* the quality model.
SimulateStepCoupled(s) ==
    /\ s \in GenericSectors
    /\ frame[s].pc = "loop"
    /\ frame[s].year < frame[s].years
    /\ LET self == update_state(s, sim[s], frame[s].year)
       IN  /\ sim' = IF s = "access"
                     THEN [sim EXCEPT ![s] = self,
                                      !["quality"].current_reading_proficiency =
                                          self.current_primary_dropout]
                     ELSE [sim EXCEPT ![s] = self]
           /\ frame' = [frame EXCEPT ![s].year = @ + 1,
                                     ![s].results = Append(@, row(s, self, frame[s].year))]
    /\ age' = [age EXCEPT ![s] = @ + 1]
    /\ UNCHANGED <<focus, run, ret, initialised>>

\* A loop that holds the state in its final iteration: the last year of the
\* horizon is recorded without an update.
SimulateStepHoldingLastYear(s) ==
    /\ s \in GenericSectors
    /\ frame[s].pc = "loop"
    /\ frame[s].year < frame[s].years
    /\ LET self == IF frame[s].year = frame[s].years - 1 THEN sim[s]
                   ELSE update_state(s, sim[s], frame[s].year)
       IN  /\ sim' = [sim EXCEPT ![s] = self]
           /\ frame' = [frame EXCEPT ![s].year = @ + 1,
                                     ![s].results = Append(@, row(s, self, frame[s].year))]
    /\ age' = [age EXCEPT ![s] = @ + 1]
    /\ UNCHANGED <<focus, run, ret, initialised>>

\* for year in range(1, years): update_state(year); results.append({...})
SimulateStep(s) ==
    /\ s \in GenericSectors
    /\ frame[s].pc = "loop"
    /\ frame[s].year < frame[s].years
    /\ LET self == update_state(s, sim[s], frame[s].year)
       IN  /\ sim' = [sim EXCEPT ![s] = self]
           /\ frame' = [frame EXCEPT ![s].year = @ + 1,
                                     ![s].results = Append(@, row(s, self, frame[s].year))]
    /\ age' = [age EXCEPT ![s] = @ + 1]
    /\ UNCHANGED <<focus, run, ret, initialised>>

\* A finished call hands its value to its caller.
Deliver(s, call, status, value) ==
    IF frame[s].caller = "run"
    THEN IF status = "ok"
         THEN /\ run' = [run EXCEPT !.idx = @ + 1, !.results = (s :> value) @@ @]
              /\ UNCHANGED ret
         ELSE \* the exception propagates out of run_simulation
              /\ run' = IdleRun
              /\ ret' = [op |-> "run_simulation", years |-> run.years, status |-> status]
    ELSE /\ ret' = call @@ [status |-> status, value |-> value]
         /\ UNCHANGED run

\* return pd.DataFrame(results)
SimulateReturn(s) ==
    /\ s \in GenericSectors
    /\ frame[s].pc = "loop"
    /\ ~(frame[s].year < frame[s].years)
    /\ Deliver(s, [op |-> "simulate", sector |-> s, years |-> frame[s].years,
                   found |-> frame[s].found],
               "ok", DataFrame(frame[s].results))
    /\ frame' = [frame EXCEPT ![s] = IdleFrame]
    /\ UNCHANGED <<sim, focus, age, initialised>>

(***************************************************************************)
(* TeacherModel.simulate_teacher_dynamics(start_year, end_year).          *)
(***************************************************************************)
\* Entry: reset to the initial state for a new run.
teacher_simulate_begin(self) ==
    [self EXCEPT !.current_state = TeacherModel_calculate_initial_state(self)]

\* start_year values of the client's direct calls.
TeacherStarts == {0, 2}

TeacherSimulateBegin(start_year, end_year, caller) ==
    /\ MayCall("teachers", caller)
    /\ caller = "run" => start_year = 0 /\ end_year = run.years
    /\ sim' = [sim EXCEPT !.teachers = teacher_simulate_begin(sim.teachers)]
    /\ frame' = [frame EXCEPT !["teachers"] =
           [pc |-> "loop", caller |-> caller, start_year |-> start_year,
            end_year |-> end_year, year |-> start_year,
            found |-> Found("teachers", sim'.teachers # sim.teachers), results |-> <<>>]]
    /\ age' = [age EXCEPT !["teachers"] = 0]
    /\ ret' = IF caller = "client" THEN NoReturn ELSE ret
    /\ UNCHANGED <<focus, run, initialised>>

\* A loop iteration that records the live state mapping instead of a copy of
\* its values, so that every row recorded so far shows the state as the
\* latest update left it.
TeacherSimulateStepAliased ==
    /\ frame["teachers"].pc = "loop"
    /\ frame["teachers"].year <= frame["teachers"].end_year
    /\ sim' = [sim EXCEPT !.teachers = TeacherModel_update_state(sim.teachers)]
    /\ frame' = [frame EXCEPT
           !["teachers"].year = @ + 1,
           !["teachers"].results =
               [i \in 1..(Len(@) + 1) |->
                   TeacherModel_row(sim'.teachers, frame["teachers"].start_year + i - 1)]]
    /\ age' = [age EXCEPT !["teachers"] = @ + 1]
    /\ UNCHANGED <<focus, run, ret, initialised>>

\* for year in range(start_year, end_year + 1): results.append({...}); update_state()
TeacherSimulateStep ==
    /\ frame["teachers"].pc = "loop"
    /\ frame["teachers"].year <= frame["teachers"].end_year
    /\ frame' = [frame EXCEPT
           !["teachers"].year = @ + 1,
           !["teachers"].results = Append(@, TeacherModel_row(sim.teachers, frame["teachers"].year))]
    /\ sim' = [sim EXCEPT !.teachers = TeacherModel_update_state(sim.teachers)]
    /\ age' = [age EXCEPT !["teachers"] = @ + 1]
    /\ UNCHANGED <<focus, run, ret, initialised>>

\* return pd.DataFrame(results).set_index("Year")
TeacherSimulateReturn ==
    /\ frame["teachers"].pc = "loop"
    /\ ~(frame["teachers"].year <= frame["teachers"].end_year)
    /\ LET df == DataFrame(frame["teachers"].results)
           call == [op |-> "simulate", sector |-> "teachers",
                    start_year |-> frame["teachers"].start_year,
                    end_year |-> frame["teachers"].end_year,
                    found |-> frame["teachers"].found]
       IN  IF HasColumn(df, "Year")
           THEN Deliver("teachers", call, "ok", set_index(df, "Year"))
           ELSE Deliver("teachers", call, "KeyError", <<>>)
    /\ frame' = [frame EXCEPT !["teachers"] = IdleFrame]
    /\ UNCHANGED <<sim, focus, age, initialised>>

(***************************************************************************)
(* BangladeshEducationSimulation.run_simulation(years).                   *)
(***************************************************************************)
\* run_simulation(years) with an explicit horizon.
RunSimulation(years) ==
    /\ Quiescent /\ focus = "orchestrator"
    /\ run' = [pc |-> "running", years |-> years, idx |-> 1, results |-> EmptyDict]
    /\ ret' = NoReturn
    /\ UNCHANGED <<sim, focus, frame, age, initialised>>

\* run_simulation(): years is None, so self.years is used.
RunSimulationDefault ==
    /\ Quiescent /\ focus = "orchestrator"
    /\ run' = [pc |-> "running", years |-> sim.years, idx |-> 1, results |-> EmptyDict]
    /\ ret' = NoReturn
    /\ UNCHANGED <<sim, focus, frame, age, initialised>>

\* return results
RunSimulationReturn ==
    /\ run.pc \in {"running", "scattered"}
    /\ run.idx > Len(Sectors)
    /\ ret' = [op |-> "run_simulation", years |-> run.years, status |-> "ok",
               value |-> run.results]
    /\ run' = IdleRun
    /\ UNCHANGED <<sim, focus, frame, age, initialised>>

\* analyze_results(results) on the mapping the last run_simulation returned.
AnalyzeResults ==
    /\ Quiescent /\ focus = "orchestrator"
    /\ ret.op = "run_simulation" /\ ret.status = "ok"
    /\ ret' = IF analyze_results_raises(ret.value)
              THEN [op |-> "analyze_results", years |-> ret.years, results |-> ret.value,
                    status |-> "KeyError"]
              ELSE [op |-> "analyze_results", years |-> ret.years, results |-> ret.value,
                    status |-> "ok", value |-> analyze_results(ret.value)]
    /\ UNCHANGED <<sim, focus, frame, run, age, initialised>>

Next ==
    \/ \E s \in SectorSet : CallCalculateInitialState(s)
    \/ CallTeacherCalculateInitialState
    \/ \E s \in SectorSet, year \in UpdateYearArgs : CallUpdateState(s, year)
    \/ CallTeacherUpdateState
    \/ \E s \in SectorSet, years \in YearArgs, caller \in {"client", "run"} :
           SimulateBegin(s, years, caller)
    \/ \E s \in SectorSet : SimulateStep(s)
    \/ \E s \in SectorSet : SimulateReturn(s)
    \/ \E start_year \in TeacherStarts, end_year \in YearArgs, caller \in {"client", "run"} :
           TeacherSimulateBegin(start_year, end_year, caller)
    \/ TeacherSimulateStep
    \/ TeacherSimulateReturn
    \/ \E years \in YearArgs : RunSimulation(years)
    \/ RunSimulationDefault
    \/ RunSimulationReturn
    \/ AnalyzeResults

Spec == Init /\ [][Next]_vars

(***************************************************************************)
(* Sparse configurations: mappings with keys absent, down to the empty    *)
(* mapping.  The client constructs the orchestrator, runs run_simulation  *)
(* and passes the result to analyze_results.                              *)
(***************************************************************************)
Restrict(d, keys) == [k \in keys |-> d[k]]

\* A configuration with one of its driver groups absent.
WithoutGroup(config, group) ==
    IF group \in DOMAIN config
    THEN Restrict(config, DOMAIN config \ {group})
    ELSE [config EXCEPT !["teacher_params"] = Restrict(@, DOMAIN @ \ {group})]

StaticTeacherFactors ==
    [teacher_params |->
        [annual_qualification_improvement_factor |-> Zero,
         annual_experience_shift_factor |-> Zero,
         annual_pd_effectiveness_increase |-> Zero,
         annual_workload_change_factor |-> Zero,
         annual_motivation_increase_factor |-> Zero]]

\* A configuration laid out as the sample configuration's institution block
\* is: the governance_structures driver group sits under institution_params,
\* next to the sector's annual factors, and not at the top level.
NestedDriverConfig ==
    LET rest == Restrict(BaselineConfig, DOMAIN BaselineConfig \ {"governance_structures"})
    IN  [rest EXCEPT !["institution_params"] =
            DictSet(@, "governance_structures", BaselineConfig["governance_structures"])]

SparseConfigs ==
    {EmptyDict, [teacher_params |-> EmptyDict], StaticTeacherFactors, NestedDriverConfig,
     Restrict(BaselineConfig, DOMAIN BaselineConfig \ {"access_params"}),
     Restrict(BaselineConfig, DOMAIN BaselineConfig \ {"finance_params"})}
    \cup {WithoutGroup(BaselineConfig, g) :
             g \in (DOMAIN BaselineConfig \cup DOMAIN BaselineConfig["teacher_params"])
                   \ {"access_params", "quality_params", "teacher_params",
                      "institution_params", "curriculum_params", "edtech_params",
                      "finance_params", "simulation_years",
                      "annual_qualification_improvement_factor",
                      "annual_experience_shift_factor", "annual_pd_effectiveness_increase",
                      "annual_workload_change_factor", "annual_motivation_increase_factor"}}

InitSparse ==
    /\ focus = "orchestrator"
    /\ \E config \in SparseConfigs : sim = BangladeshEducationSimulation_init(config)
    /\ frame = [s \in SectorSet |-> IdleFrame]
    /\ run = IdleRun
    /\ ret = NoReturn
    /\ age = [s \in SectorSet |-> 0]
    /\ initialised = [s \in SectorSet |-> s = "teachers"]

\* The teacher factors the configuration left to their defaults (0.01, 0.015,
\* 0.02, 0.005, 0.01) compound to rationals beyond TLC's integers at the second
\* update; such configurations are run over horizon 0 (one teacher update),
\* the others over their own default horizon.
TeacherFactorsExact ==
    \A f \in {"annual_qualification_improvement_factor", "annual_experience_shift_factor",
               "annual_pd_effectiveness_increase", "annual_workload_change_factor",
               "annual_motivation_increase_factor"} :
        sim.teachers.params[f] \in TeacherFactors

NextSparse ==
    \/ TeacherFactorsExact /\ RunSimulationDefault
    \/ ~TeacherFactorsExact /\ RunSimulation(0)
    \/ \E s \in SectorSet : SimulateBegin(s, run.years, "run")
    \/ \E s \in SectorSet : SimulateStep(s)
    \/ \E s \in SectorSet : SimulateReturn(s)
    \/ TeacherSimulateBegin(0, run.years, "run")
    \/ TeacherSimulateStep
    \/ TeacherSimulateReturn
    \/ RunSimulationReturn
    \/ AnalyzeResults

SpecSparse == InitSparse /\ [][NextSparse]_vars

(***************************************************************************)
(* The any-order schedule: run_simulation with its seven sector           *)
(* simulations started in any order and their loop iterations             *)
(* interleaved.  The code runs them one after the other (Spec); this      *)
(* schedule executes the same steps in every other order.                 *)
(***************************************************************************)
AnyOrderConfig == [simulation_years |-> 2] @@ BaselineConfig

InitAnyOrder ==
    /\ focus = "orchestrator"
    /\ sim = BangladeshEducationSimulation_init(AnyOrderConfig)
    /\ frame = [s \in SectorSet |-> IdleFrame]
    /\ run = IdleRun
    /\ ret = NoReturn
    /\ age = [s \in SectorSet |-> 0]
    /\ initialised = [s \in SectorSet |-> s = "teachers"]

\* run_simulation() entered; the sector calls are left to the schedule.
RunSimulationScattered ==
    /\ Quiescent /\ focus = "orchestrator"
    /\ run' = [pc |-> "scattered", years |-> sim.years, idx |-> 1, results |-> EmptyDict]
    /\ ret' = NoReturn
    /\ UNCHANGED <<sim, focus, frame, age, initialised>>

NextAnyOrder ==
    \/ RunSimulationScattered
    \/ \E s \in SectorSet : SimulateBegin(s, run.years, "run")
    \/ \E s \in SectorSet : SimulateStep(s)
    \/ \E s \in SectorSet : SimulateReturn(s)
    \/ TeacherSimulateBegin(0, run.years, "run")
    \/ TeacherSimulateStep
    \/ TeacherSimulateReturn
    \/ RunSimulationReturn

SpecAnyOrder == InitAnyOrder /\ [][NextAnyOrder]_vars

(***************************************************************************)
(* Properties.                                                             *)
(***************************************************************************)
InUnit(v) == Le(Zero, v) /\ Le(v, One)
\* The indicator columns of a generic row.
Indicators(r) == DOMAIN r \ {"year"}

ConstructedModel(s) ==
    CASE s = "access" -> AccessModel_init(sim[s].parameters)
      [] s = "quality" -> QualityModel_init(sim[s].parameters)
      [] s = "institutions" -> InstitutionModel_init(sim[s].parameters)
      [] s = "curriculum" -> CurriculumModel_init(sim[s].parameters)
      [] s = "edtech" -> EdTechModel_init(sim[s].parameters)
      [] s = "finance" -> FinanceModel_init(sim[s].parameters)

GenericSeriesReturned ==
    ret.op = "simulate" /\ ret.status = "ok" /\ ret.sector \in GenericSectors
TeacherSeriesReturned ==
    ret.op = "simulate" /\ ret.status = "ok" /\ ret.sector = "teachers"
RunReturned == ret.op = "run_simulation" /\ ret.status = "ok"

\* C1: in the series a generic model's simulate returns, every indicator of
\* every row (year 0 and later) lies in [0,1], for drivers in [0,1] and any
\* signed annual factors.
C1_GenericIndicatorsInUnit ==
    GenericSeriesReturned =>
        \A i \in 1..Len(ret.value.rows) :
            \A c \in Indicators(ret.value.rows[i]) : InUnit(ret.value.rows[i][c])

\* C2: in every row simulate_teacher_dynamics returns, the first included,
\* Workload Score lies in [0,2] and the four other drivers and the three
\* composite indices lie in [0,1].
C2_TeacherIndicatorsBounded ==
    TeacherSeriesReturned =>
        \A i \in 1..Len(ret.value.rows) :
            \A c \in DOMAIN ret.value.rows[i] :
                IF c = "Workload Score"
                THEN Le(Zero, ret.value.rows[i][c]) /\ Le(ret.value.rows[i][c], Num(2))
                ELSE InUnit(ret.value.rows[i][c])

\* C3: for years >= 0 a generic simulate(years) returns exactly `years` rows,
\* labelled 0, 1, ..., years-1 in increasing order.
C3_GenericRowPerYear ==
    (GenericSeriesReturned /\ ret.years >= 0) =>
        /\ Len(ret.value.rows) = ret.years
        /\ \A i \in 1..Len(ret.value.rows) : ret.value.rows[i].year = i - 1

\* The columns of the year-0 teacher row, as the returned frame holds them.
TeacherYearZeroRow ==
    LET r == TeacherModel_row(TeacherModel_init(sim.teachers.params), 0)
    IN  [c \in DOMAIN r \ {"Year"} |-> r[c]]

\* C4: simulate_teacher_dynamics(start_year, end_year) returns one row per year
\* start_year..end_year, labelled with the year, the first being the freshly
\* computed initial state; so run_simulation(years) gives the teacher series
\* years+1 rows (labels 0..years) and each other series `years` rows (labels
\* 0..years-1).
C4_TeacherInclusiveHorizon ==
    /\ TeacherSeriesReturned =>
          /\ Len(ret.value.rows) = ret.end_year - ret.start_year + 1
          /\ \A i \in 1..Len(ret.value.rows) : ret.value.index[i] = ret.start_year + i - 1
          /\ ret.value.rows[1] = TeacherYearZeroRow
    /\ RunReturned =>
          /\ Len(ret.value["teachers"].rows) = ret.years + 1
          /\ \A i \in 1..Len(ret.value["teachers"].rows) :
                 ret.value["teachers"].index[i] = i - 1
          /\ \A s \in GenericSectors :
                 /\ Len(ret.value[s].rows) = ret.years
                 /\ \A i \in 1..Len(ret.value[s].rows) : ret.value[s].rows[i].year = i - 1

(***************************************************************************)
(* What a freshly constructed model with the same Parameters returns.     *)
(***************************************************************************)
RECURSIVE FreshGenericRows(_, _, _, _)
FreshGenericRows(s, self, year, years) ==
    IF year < years
    THEN LET next == update_state(s, self, year)
         IN  <<row(s, next, year)>> \o FreshGenericRows(s, next, year + 1, years)
    ELSE <<>>

FreshGenericSeries(s, years) ==
    LET self == calculate_initial_state(s, ConstructedModel(s))
    IN  DataFrame(<<row(s, self, 0)>> \o FreshGenericRows(s, self, 1, years))

RECURSIVE FreshTeacherRows(_, _, _)
FreshTeacherRows(self, year, end_year) ==
    IF year <= end_year
    THEN <<TeacherModel_row(self, year)>>
             \o FreshTeacherRows(TeacherModel_update_state(self), year + 1, end_year)
    ELSE <<>>

FreshTeacherFrame(start_year, end_year) ==
    DataFrame(FreshTeacherRows(TeacherModel_init(sim.teachers.params), start_year, end_year))

\* C5: whatever update_state and simulate calls preceded it on the same
\* instance, a simulate call returns what a freshly constructed model with the
\* same Parameters returns (for the teacher model: the same series, or the same
\* KeyError for an empty year range).
C5_SimulateRestartsFromYearZero ==
    /\ GenericSeriesReturned => ret.value = FreshGenericSeries(ret.sector, ret.years)
    /\ (ret.op = "simulate" /\ ret.sector = "teachers") =>
          LET fresh == FreshTeacherFrame(ret.start_year, ret.end_year)
          IN  IF HasColumn(fresh, "Year")
              THEN ret.status = "ok" /\ ret.value = set_index(fresh, "Year")
              ELSE ret.status = "KeyError"
    /\ RunReturned =>
          /\ \A s \in GenericSectors : ret.value[s] = FreshGenericSeries(s, ret.years)
          /\ ret.value["teachers"] = set_index(FreshTeacherFrame(0, ret.years), "Year")

\* A simulate call that found a state already computed and then updated at
\* least twice, different from the year-0 state, and returned three or more rows.
C5_Witness ==
    /\ ret.op = "simulate" /\ ret.status = "ok"
    /\ ret.found.initialised /\ ret.found.age >= 2 /\ ret.found.differs
    /\ Len(ret.value.rows) >= 3

\* C6: computing the initial state is idempotent.  Whatever state the model
\* was in before the call, the call leaves (for the teacher model: returns) the
\* year-0 values a freshly constructed model computes, and calling it again
\* straight away yields those same values.
C6_InitialStateIdempotent ==
    ret.op = "_calculate_initial_state" =>
        IF ret.sector = "teachers"
        THEN /\ ret.value = TeacherModel_init(sim.teachers.params).current_state
             /\ TeacherModel_calculate_initial_state(sim.teachers) = ret.value
        ELSE /\ sim[ret.sector]
                  = calculate_initial_state(ret.sector, ConstructedModel(ret.sector))
             /\ calculate_initial_state(ret.sector, sim[ret.sector]) = sim[ret.sector]

\* The initial state recomputed on a generic model whose state had been
\* computed before and then moved away from year 0 by two updates or more.
C6_Witness ==
    /\ ret.op = "_calculate_initial_state" /\ ret.sector \in GenericSectors
    /\ ret.found.initialised /\ ret.found.age >= 2 /\ ret.found.differs

\* C7: on a constructed generic model whose initial state has not been
\* computed, update_state has no effect: every indicator keeps the value the
\* constructor gave it, whatever the annual factors.
C7_UpdateBeforeInitialStateNoEffect ==
    \A s \in GenericSectors : ~initialised[s] => sim[s] = ConstructedModel(s)

\* The values of column c over the rows of a returned series.
Column(rows, c) == [i \in 1..Len(rows) |-> rows[i][c]]

\* The Grow-updated columns of the returned series whose factor is positive
\* and whose year-0 value lies in [0,1).
C8_Case(c) ==
    /\ GenericSeriesReturned
    /\ c \in DOMAIN GrowthColumns(ret.sector)
    /\ Lt(Zero, sim[ret.sector].parameters[GrowthColumns(ret.sector)[c]])
    /\ Le(Zero, ret.value.rows[1][c]) /\ Lt(ret.value.rows[1][c], One)

C8_Columns == {c \in {"primary_enrollment", "secondary_transition", "reading_proficiency",
                      "numeracy_skills", "critical_thinking", "science_literacy",
                      "leadership_effectiveness", "community_engagement",
                      "resource_utilization", "institutional_culture",
                      "curriculum_relevance", "21st_century_skills", "learning_materials",
                      "pedagogical_innovation", "digital_infrastructure",
                      "teacher_digital_competency", "digital_content",
                      "emerging_tech_adoption", "allocation_efficiency",
                      "financial_management", "alternative_financing"} : C8_Case(c)}

\* C8 as stated: with factor f > 0 and year-0 value in [0,1), 0 included, a
\* Grow-updated indicator is strictly increasing from each year to the next and
\* never exceeds 1.
C8_GrowthStrictlyIncreasing ==
    \A c \in C8_Columns :
        LET v == Column(ret.value.rows, c)
        IN  \A i \in 1..(Len(ret.value.rows) - 1) :
                Lt(v[i], v[i + 1]) /\ Le(v[i + 1], One)

\* C8 amended: with factor f > 0 and year-0 value in [0,1), a Grow-updated
\* indicator never decreases and never exceeds 1; it increases strictly at
\* every step that starts strictly between 0 and 1, stays 0 from 0 and stays 1
\* once the cap is reached.
C8_GrowthMonotoneBelowCap ==
    \A c \in C8_Columns :
        LET v == Column(ret.value.rows, c)
        IN  \A i \in 1..(Len(ret.value.rows) - 1) :
                /\ Le(v[i], v[i + 1]) /\ Le(v[i + 1], One)
                /\ (Lt(Zero, v[i]) /\ Lt(v[i], One)) => Lt(v[i], v[i + 1])
                /\ v[i] = Zero => v[i + 1] = Zero
                /\ v[i] = One => v[i + 1] = One

\* A returned series of three rows or more with a column that starts strictly
\* inside (0,1) under a positive factor and rises at every step.
C8_Witness ==
    \E c \in C8_Columns :
        LET v == Column(ret.value.rows, c)
        IN  /\ Len(ret.value.rows) >= 3
            /\ Lt(Zero, v[1])
            /\ \A i \in 1..(Len(ret.value.rows) - 1) : Lt(v[i], v[i + 1])

\* The series the access model produced in the call that just returned:
\* from simulate_access_dynamics directly, or inside run_simulation.
AccessRowsReturned ==
    IF GenericSeriesReturned /\ ret.sector = "access" THEN ret.value.rows
    ELSE IF RunReturned THEN ret.value["access"].rows
    ELSE <<>>

DropoutReductionInUnit ==
    /\ Lt(Zero, sim.access.parameters.annual_dropout_reduction_factor)
    /\ Lt(sim.access.parameters.annual_dropout_reduction_factor, One)

\* C9: with annual_dropout_reduction_factor strictly between 0 and 1, the
\* access model's primary_dropout and secondary_dropout never rise from one
\* year of the series to the next and are never below 0.
C9_DropoutNonIncreasing ==
    DropoutReductionInUnit =>
        \A c \in {"primary_dropout", "secondary_dropout"} :
            LET v == Column(AccessRowsReturned, c)
            IN  /\ \A i \in 1..Len(AccessRowsReturned) : Le(Zero, v[i])
                /\ \A i \in 1..(Len(AccessRowsReturned) - 1) : Le(v[i + 1], v[i])

\* An access series of three rows or more, factor in (0,1), in which both
\* dropout rates fall at every step.
C9_Witness ==
    /\ DropoutReductionInUnit
    /\ Len(AccessRowsReturned) >= 3
    /\ \A c \in {"primary_dropout", "secondary_dropout"} :
           \A i \in 1..(Len(AccessRowsReturned) - 1) :
               Lt(AccessRowsReturned[i + 1][c], AccessRowsReturned[i][c])

\* Year-0 funding adequacy of the finance model, as its parameters give it.
FundingAtYearZero ==
    FinanceModel_calculate_initial_state(ConstructedModel("finance")).current_funding_adequacy

\* C10: finance funding_adequacy is additive with clipping.  k updates after
\* the year-0 value v0 was computed, with the constant signed factor f, the
\* indicator is clip(v0 + k*f, 0, 1); so is row k of every finance series.
C10_FundingAdditiveClipped ==
    LET f == sim.finance.parameters.annual_funding_change_factor
    IN  /\ initialised["finance"] =>
              sim.finance.current_funding_adequacy
                  = np_clip(Add(FundingAtYearZero, Mul(Num(age["finance"]), f)), Zero, One)
        /\ (GenericSeriesReturned /\ ret.sector = "finance") =>
              \A i \in 1..Len(ret.value.rows) :
                  ret.value.rows[i].funding_adequacy
                      = np_clip(Add(ret.value.rows[1].funding_adequacy, Mul(Num(i - 1), f)),
                                Zero, One)

\* The finance series 0.2, 0.15, 0.10, 0.05 under factor -0.05.
C10_Witness ==
    /\ GenericSeriesReturned /\ ret.sector = "finance"
    /\ sim.finance.parameters.annual_funding_change_factor = R(0 - 1, 20)
    /\ Len(ret.value.rows) >= 4
    /\ Column(SubSeq(ret.value.rows, 1, 4), "funding_adequacy")
           = <<R(1, 5), R(3, 20), R(1, 10), R(1, 20)>>

\* The series the teacher model produced in the call that just returned:
\* from simulate_teacher_dynamics directly, or inside run_simulation.
TeacherRowsReturned ==
    IF TeacherSeriesReturned THEN ret.value.rows
    ELSE IF RunReturned THEN ret.value["teachers"].rows
    ELSE <<>>

\* The three composites as the fixed linear combinations of one row's own
\* columns, clipped to [0,1].
CompositesFromOwnRow(r) ==
    /\ r["Teacher Quality"]
         = np_clip(Add(Add(Mul(R(2, 5), r["Qualification Score"]),
                           Mul(R(3, 10), r["Experience Score"])),
                       Mul(R(3, 10), r["PD Effectiveness"])), Zero, One)
    /\ r["Teaching Effectiveness"]
         = np_clip(Sub(Add(Mul(Half, r["Teacher Quality"]),
                           Mul(R(3, 10), r["Motivation Score"])),
                       Mul(R(1, 5), r["Workload Score"])), Zero, One)
    /\ r["Teacher Motivation"]
         = np_clip(Sub(Add(Mul(R(3, 5), r["Motivation Score"]),
                           Mul(R(1, 5), r["PD Effectiveness"])),
                       Mul(R(1, 5), r["Workload Score"])), Zero, One)

\* C11: in every row of the teacher series, year 0 and later, the three
\* composites are the fixed linear combinations, clipped to [0,1], of the
\* drivers and the Teacher Quality recorded in that same row.
C11_TeacherCompositesFromSameRow ==
    \A i \in 1..Len(TeacherRowsReturned) : CompositesFromOwnRow(TeacherRowsReturned[i])

\* A teacher series of three rows or more whose drivers and composites both
\* move from year to year, with unclipped composites in the last row.
C11_Witness ==
    LET rows == TeacherRowsReturned
    IN  /\ Len(rows) >= 3
        /\ \A i \in 1..(Len(rows) - 1) :
              /\ rows[i + 1]["Qualification Score"] # rows[i]["Qualification Score"]
              /\ rows[i + 1]["Teacher Quality"] # rows[i]["Teacher Quality"]
        /\ \A c \in {"Teacher Quality", "Teaching Effectiveness", "Teacher Motivation"} :
              Lt(Zero, rows[Len(rows)][c]) /\ Lt(rows[Len(rows)][c], One)

\* For each indicator whose year-0 value is a capped product: the group and
\* key of its base driver, and of each of its two modifiers with its weight.
InitialRule(s) ==
    CASE s = "access" ->
           ("primary_enrollment" :> <<"population_demographics", "primary_age_population", "physical_infrastructure", "school_density", R(1, 10),
               "incentive_programs", "stipend_coverage", R(1, 10)>>)
           @@ ("secondary_transition" :> <<"institutional_capacity", "secondary_schools", "socioeconomic_factors", "household_income", R(1, 10),
               "geographic_distribution", "transportation_access", R(1, 10)>>)
      [] s = "quality" ->
           ("reading_proficiency" :> <<"teaching_practices", "reading_instruction_quality", "learning_environments", "classroom_quality", R(1, 10),
               "assessment_systems", "reading_assessment_frequency", R(1, 10)>>)
           @@ ("numeracy_skills" :> <<"teaching_practices", "math_instruction_quality", "curricular_implementation", "math_curriculum_quality", R(1, 10),
               "assessment_systems", "math_assessment_frequency", R(1, 10)>>)
           @@ ("critical_thinking" :> <<"teaching_practices", "critical_thinking_emphasis", "learning_environments", "student_engagement", R(1, 10),
               "curricular_implementation", "critical_thinking_integration", R(1, 10)>>)
           @@ ("science_literacy" :> <<"teaching_practices", "science_instruction_quality", "learning_environments", "lab_facilities", R(1, 10),
               "curricular_implementation", "science_curriculum_quality", R(1, 10)>>)
      [] s = "institutions" ->
           ("leadership_effectiveness" :> <<"governance_structures", "leadership_quality", "management_practices", "strategic_planning", R(1, 5),
               "resource_allocation", "budget_management", R(1, 10)>>)
           @@ ("community_engagement" :> <<"governance_structures", "community_participation", "institutional_culture", "parent_involvement", R(1, 10),
               "management_practices", "community_outreach", R(1, 10)>>)
           @@ ("resource_utilization" :> <<"resource_allocation", "resource_efficiency", "management_practices", "financial_management", R(1, 10),
               "governance_structures", "accountability", R(1, 10)>>)
           @@ ("institutional_culture" :> <<"institutional_culture", "school_climate", "governance_structures", "vision_alignment", R(1, 10),
               "management_practices", "staff_morale", R(1, 10)>>)
      [] s = "curriculum" ->
           ("curriculum_relevance" :> <<"content_development", "content_quality", "competency_frameworks", "skill_alignment", R(1, 10),
               "instructional_methods", "pedagogical_effectiveness", R(1, 10)>>)
           @@ ("21st_century_skills" :> <<"competency_frameworks", "critical_thinking", "content_development", "digital_literacy", R(1, 10),
               "instructional_methods", "collaborative_learning", R(1, 10)>>)
           @@ ("learning_materials" :> <<"learning_materials", "textbook_quality", "content_development", "supplementary_materials", R(1, 10),
               "instructional_methods", "resource_utilization", R(1, 10)>>)
           @@ ("pedagogical_innovation" :> <<"instructional_methods", "active_learning", "content_development", "digital_content", R(1, 10),
               "competency_frameworks", "assessment_innovation", R(1, 10)>>)
      [] s = "edtech" ->
           ("digital_infrastructure" :> <<"infrastructure_development", "connectivity", "technology_access", "device_availability", R(1, 5),
               "digital_capacity", "technical_support", R(1, 10)>>)
           @@ ("teacher_digital_competency" :> <<"digital_capacity", "teacher_training", "pedagogical_integration", "tech_integration", R(1, 10),
               "technology_access", "resource_availability", R(1, 10)>>)
           @@ ("digital_content" :> <<"infrastructure_development", "content_platforms", "technology_access", "content_access", R(1, 10),
               "pedagogical_integration", "content_utilization", R(1, 10)>>)
           @@ ("emerging_tech_adoption" :> <<"infrastructure_development", "innovation_readiness", "digital_capacity", "technical_expertise", R(1, 10),
               "pedagogical_integration", "innovative_practices", R(1, 10)>>)
      [] s = "finance" ->
           ("funding_adequacy" :> <<"revenue_generation", "budget_share", "allocation_mechanisms", "equitable_distribution", R(1, 20),
               "efficiency_measures", "resource_utilization", R(1, 20)>>)
           @@ ("allocation_efficiency" :> <<"allocation_mechanisms", "targeting_accuracy", "expenditure_patterns", "priority_alignment", R(1, 10),
               "revenue_generation", "funding_stability", R(1, 10)>>)
           @@ ("financial_management" :> <<"efficiency_measures", "budget_execution", "allocation_mechanisms", "transparency", R(1, 10),
               "expenditure_patterns", "accountability", R(1, 10)>>)
           @@ ("alternative_financing" :> <<"revenue_generation", "private_sector", "allocation_mechanisms", "partnership_effectiveness", R(1, 10),
               "efficiency_measures", "cost_recovery", R(1, 10)>>)

\* The driver a rule names, an absent key read as 0.
Driver(s, group, key) == Get(sim[s].parameters[group], key, Zero)

RuleValue(s, rule) ==
    np_clip(Mul(Mul(Driver(s, rule[1], rule[2]),
                    Add(One, Mul(Driver(s, rule[3], rule[4]), rule[5]))),
                Add(One, Mul(Driver(s, rule[6], rule[7]), rule[8]))), Zero, One)

\* C12: while a generic model is at year 0, each of its growth indicators
\* equals clip(base*(1+m1*w1)*(1+m2*w2), 0, 1) for its base driver, its two
\* modifiers and their weights, an absent driver read as 0.
C12_InitialValueRule ==
    \A s \in GenericSectors :
        (initialised[s] /\ age[s] = 0) =>
            \A c \in DOMAIN InitialRule(s) :
                row(s, sim[s], 0)[c] = RuleValue(s, InitialRule(s)[c])

\* The access model at year 0 with primary_age_population 0.98, school_density
\* 0.6 and stipend_coverage 0.5: primary_enrollment is capped at exactly 1.
C12_Witness ==
    /\ initialised["access"] /\ age["access"] = 0
    /\ Driver("access", "population_demographics", "primary_age_population") = R(98, 100)
    /\ Driver("access", "physical_infrastructure", "school_density") = R(6, 10)
    /\ Driver("access", "incentive_programs", "stipend_coverage") = R(5, 10)
    /\ sim.access.current_primary_enrollment = One

\* C13: under every order and interleaving of the seven sector simulations'
\* steps, the series run_simulation collects and returns for each sector is the
\* series that sector's simulate returns when run alone on a fresh model.
C13_OrderIndependent ==
    /\ run.pc # "idle" =>
          \A s \in DOMAIN run.results :
              run.results[s] = IF s = "teachers"
                               THEN set_index(FreshTeacherFrame(0, run.years), "Year")
                               ELSE FreshGenericSeries(s, run.years)
    /\ RunReturned =>
          /\ DOMAIN ret.value = SectorSet
          /\ \A s \in GenericSectors : ret.value[s] = FreshGenericSeries(s, ret.years)
          /\ ret.value["teachers"] = set_index(FreshTeacherFrame(0, ret.years), "Year")

\* A sector late in the code's order has delivered a series with an updated
\* row while three others are in the middle of their loops, one of them
\* further on than a sector the code runs before it, and one is not started.
C13_Witness ==
    /\ run.pc = "scattered"
    /\ "edtech" \in DOMAIN run.results /\ Len(run.results["edtech"].rows) = 2
    /\ frame["finance"].pc = "loop" /\ frame["finance"].year = 2
    /\ frame["access"].pc = "loop" /\ frame["access"].year = 1
    /\ frame["teachers"].pc = "loop" /\ Len(frame["teachers"].results) = 1
    /\ frame["quality"].pc = "idle" /\ "quality" \notin DOMAIN run.results

\* What __init__ reads for each model: the key of its factor mapping, whether
\* its driver groups are read from the top level of the configuration (or
\* from the factor mapping), the driver groups, and each factor's default.
ConfigReads(s) ==
    CASE s = "access" ->
           [params_key |-> "access_params", groups_at_top |-> TRUE,
            groups |-> {"population_demographics", "geographic_distribution", "socioeconomic_factors",
                        "institutional_capacity", "incentive_programs",
                        "physical_infrastructure"},
            defaults |->
                "annual_enrollment_growth_factor" :> R(1, 200)
                @@ "annual_transition_improvement_factor" :> R(7, 1000)
                @@ "annual_dropout_reduction_factor" :> R(1, 100)]
      [] s = "quality" ->
           [params_key |-> "quality_params", groups_at_top |-> TRUE,
            groups |-> {"teaching_practices", "learning_environments", "assessment_systems",
                        "curricular_implementation"},
            defaults |->
                "annual_quality_improvement_factor" :> R(3, 500)]
      [] s = "teachers" ->
           [params_key |-> "teacher_params", groups_at_top |-> FALSE,
            groups |-> {"qualification_distribution", "experience_levels", "professional_development",
                        "workload_factors", "motivation_indicators"},
            defaults |->
                "annual_qualification_improvement_factor" :> R(1, 100)
                @@ "annual_experience_shift_factor" :> R(3, 200)
                @@ "annual_pd_effectiveness_increase" :> R(1, 50)
                @@ "annual_workload_change_factor" :> R(1, 200)
                @@ "annual_motivation_increase_factor" :> R(1, 100)]
      [] s = "institutions" ->
           [params_key |-> "institution_params", groups_at_top |-> TRUE,
            groups |-> {"governance_structures", "management_practices", "resource_allocation",
                        "institutional_culture"},
            defaults |->
                "annual_leadership_improvement_factor" :> R(1, 200)
                @@ "annual_engagement_improvement_factor" :> R(3, 500)
                @@ "annual_resource_util_improvement_factor" :> R(1, 250)
                @@ "annual_culture_improvement_factor" :> R(3, 1000)]
      [] s = "curriculum" ->
           [params_key |-> "curriculum_params", groups_at_top |-> TRUE,
            groups |-> {"content_development", "competency_frameworks", "instructional_methods",
                        "learning_materials"},
            defaults |->
                "annual_relevance_improvement_factor" :> R(1, 125)
                @@ "annual_skills_improvement_factor" :> R(1, 100)
                @@ "annual_materials_improvement_factor" :> R(1, 200)
                @@ "annual_innovation_improvement_factor" :> R(7, 1000)]
      [] s = "edtech" ->
           [params_key |-> "edtech_params", groups_at_top |-> TRUE,
            groups |-> {"infrastructure_development", "technology_access", "digital_capacity",
                        "pedagogical_integration"},
            defaults |->
                "annual_infra_improvement_factor" :> R(3, 200)
                @@ "annual_competency_improvement_factor" :> R(3, 250)
                @@ "annual_content_improvement_factor" :> R(1, 100)
                @@ "annual_adoption_improvement_factor" :> R(1, 125)]
      [] s = "finance" ->
           [params_key |-> "finance_params", groups_at_top |-> TRUE,
            groups |-> {"revenue_generation", "allocation_mechanisms", "expenditure_patterns",
                        "efficiency_measures"},
            defaults |->
                "annual_funding_change_factor" :> R(0, 1)
                @@ "annual_efficiency_improvement_factor" :> R(0, 1)
                @@ "annual_management_improvement_factor" :> R(0, 1)
                @@ "annual_alternative_financing_growth_factor" :> R(0, 1)]

ParametersOf(s) == IF s = "teachers" THEN sim.teachers.params ELSE sim[s].parameters

\* The mapping __init__ reads a model's factors from, and the one it reads its
\* driver groups from.
FactorMapping(s) == Get(sim.config, ConfigReads(s).params_key, EmptyDict)
GroupMapping(s) == IF ConfigReads(s).groups_at_top THEN sim.config ELSE FactorMapping(s)

\* Every driver group and factor absent from the configuration is replaced by
\* its default: the empty mapping, the factor's literal, 25 years; and an
\* absent teacher driver by PD effectiveness 0.5, 40 hours (0.8), satisfaction
\* 0.6 and score 0 for an empty distribution.
AbsentKeysDefaulted ==
    /\ "simulation_years" \notin DOMAIN sim.config => sim.years = 25
    /\ \A s \in SectorSet :
          /\ \A g \in ConfigReads(s).groups \ DOMAIN GroupMapping(s) :
                ParametersOf(s)[g] = EmptyDict
          /\ \A f \in DOMAIN ConfigReads(s).defaults \ DOMAIN FactorMapping(s) :
                ParametersOf(s)[f] = ConfigReads(s).defaults[f]
    /\ LET p == sim.teachers.params
           state == TeacherModel_calculate_initial_state(sim.teachers)
       IN  /\ "effectiveness" \notin DOMAIN p.professional_development =>
                  state["pd_effectiveness"] = R(1, 2)
           /\ "average_hours" \notin DOMAIN p.workload_factors =>
                  state["workload_score"] = R(4, 5)
           /\ "satisfaction_index" \notin DOMAIN p.motivation_indicators =>
                  state["motivation_score"] = R(3, 5)
           /\ p.qualification_distribution = EmptyDict => state["qualification_score"] = Zero
           /\ p.experience_levels = EmptyDict => state["experience_score"] = Zero

\* C14: for a configuration with any of its keys absent, the empty mapping
\* included, construction, run_simulation and analyze_results raise no error,
\* and every absent driver or factor is replaced by a default value.
C14_AbsentConfigDefaulted ==
    /\ AbsentKeysDefaulted
    /\ ret.op # "none" => ret.status = "ok"
    /\ RunReturned => DOMAIN ret.value = SectorSet
    /\ ret.op = "analyze_results" => {m[1] : m \in KeyMetrics} \subseteq DOMAIN ret.value

\* analyze_results has returned for the orchestrator built from the empty
\* mapping and run.
C14_Witness ==
    /\ sim.config = EmptyDict
    /\ ret.op = "analyze_results" /\ ret.status = "ok"
    /\ DOMAIN ret.results = SectorSet

\* C15: for every integer horizon, negative ones included, run_simulation
\* ends without an error and returns a mapping with a series for each of the
\* seven sectors.
C15_RunReturnsAllSectors ==
    ret.op = "run_simulation" => ret.status = "ok" /\ DOMAIN ret.value = SectorSet

AnalysisReturned == ret.op = "analyze_results" /\ ret.status = "ok"

\* C16: for every sector and every column other than `year`, the analysis
\* holds the original-case "<sector>_<column>_mean" and "_std" keys and their
\* lowercase, underscore-for-space aliases, each pair with one value; e.g.
\* `teachers_Teacher Quality_mean` and `teachers_teacher_quality_mean`.
C16_AnalysisKeyPairs ==
    AnalysisReturned =>
        /\ \A component \in SectorSet :
              \A column \in ColumnsOf(ret.results[component]) \ {"year"} :
                  \A suffix \in {"_mean", "_std"} :
                      /\ original_key(component, column, suffix) \in DOMAIN ret.value
                      /\ lowercase_key(component, column, suffix) \in DOMAIN ret.value
                      /\ ret.value[original_key(component, column, suffix)]
                           = ret.value[lowercase_key(component, column, suffix)]
        /\ {"teachers_Teacher Quality_mean", "teachers_teacher_quality_mean",
            "teachers_Teacher Quality_std", "teachers_teacher_quality_std"}
               \subseteq DOMAIN ret.value
        /\ ret.value["teachers_Teacher Quality_mean"]
               = ret.value["teachers_teacher_quality_mean"]
        /\ ret.value["teachers_Teacher Quality_mean"]
               = SeriesMean(SeriesOf(ret.results["teachers"], "Teacher Quality"))
        /\ ret.value["teachers_Teacher Quality_std"]
               = ret.value["teachers_teacher_quality_std"]
        /\ ret.value["teachers_teacher_quality_std"]
               = SeriesStd(SeriesOf(ret.results["teachers"], "Teacher Quality"))
        /\ "access_year_mean" \notin DOMAIN ret.value

\* An analysis of a run of two years or more, in which Teacher Quality moved:
\* its mean and its standard deviation are defined numbers under both keys.
C16_Witness ==
    /\ AnalysisReturned
    /\ Len(ret.results["access"].rows) >= 2
    /\ ret.results["teachers"].rows[1]["Teacher Quality"]
           # ret.results["teachers"].rows[2]["Teacher Quality"]
    /\ ret.value["teachers_teacher_quality_mean"] # NaN
    /\ ret.value["teachers_teacher_quality_std"] # NaN

\* C17: when a sector's series has a single row, analyze_results raises no
\* error, each of that sector's "_std" keys holds NaN and each of its "_mean"
\* keys holds a defined value (the single row's).
C17_SingleRowStdIsNaN ==
    ret.op = "analyze_results" =>
        /\ ret.status = "ok"
        /\ \A component \in SectorSet :
              Len(ret.results[component].rows) = 1 =>
                  \A column \in ColumnsOf(ret.results[component]) \ {"year"} :
                      /\ ret.value[original_key(component, column, "_std")] = NaN
                      /\ ret.value[lowercase_key(component, column, "_std")] = NaN
                      /\ ret.value[original_key(component, column, "_mean")]
                           = ret.results[component].rows[1][column]
                      /\ ret.value[lowercase_key(component, column, "_mean")]
                           = ret.results[component].rows[1][column]

\* The analysis of run_simulation(1): each generic series has its single
\* year-0 row while the teacher series has two rows.
C17_Witness ==
    /\ AnalysisReturned /\ ret.years = 1
    /\ \A s \in GenericSectors : Len(ret.results[s].rows) = 1
    /\ Len(ret.results["teachers"].rows) = 2
    /\ ret.value["quality_reading_proficiency_std"] = NaN
    /\ ret.value["quality_reading_proficiency_mean"] # NaN
    /\ ret.value["teachers_Teacher Quality_std"] # NaN

\* The distribution mappings of the teacher parameters with the state key and
\* the series column of the score computed from each.
ScoreOfMapping ==
    {<<"qualification_distribution", "qualification_score", "Qualification Score">>,
     <<"experience_levels", "experience_score", "Experience Score">>}

\* C18: when qualification_distribution or experience_levels is the empty
\* mapping, the score computed from it is 0 at year 0 (in the state after
\* construction and after the reset of every simulate call, and in the year-0
\* row of the series), and no call ends with an error.
C18_EmptyMappingScoreZero ==
    \A m \in ScoreOfMapping :
        ~Truthy(sim.teachers.params[m[1]]) =>
            /\ age["teachers"] = 0 => sim.teachers.current_state[m[2]] = Zero
            /\ frame["teachers"].pc = "loop" /\ Len(frame["teachers"].results) > 0 =>
                   frame["teachers"].results[1][m[3]] = Zero
            /\ run.pc # "idle" /\ "teachers" \in DOMAIN run.results =>
                   run.results["teachers"].rows[1][m[3]] = Zero
            /\ ret.op # "none" => ret.status = "ok"
            /\ RunReturned => ret.value["teachers"].rows[1][m[3]] = Zero

\* run_simulation has returned a teacher series of several rows for a
\* configuration whose qualification_distribution is absent (read as the
\* empty mapping) while experience_levels is given.
C18_Witness ==
    /\ ~Truthy(sim.teachers.params.qualification_distribution)
    /\ Truthy(sim.teachers.params.experience_levels)
    /\ RunReturned
    /\ Len(ret.value["teachers"].rows) >= 2
    /\ ret.value["teachers"].rows[1]["Qualification Score"] = Zero
    /\ ret.value["teachers"].rows[1]["Experience Score"] # Zero

\* a <= b, compared over the least common denominator.
LeReduced(a, b) ==
    LET g == GCD(a[2], b[2])
    IN  a[1] * (b[2] \div g) <= b[1] * (a[2] \div g)

\* Every indicator with an annual change factor of its own: the parameter
\* holding the factor, whether the update rule reduces by it (the access
\* dropout rates) instead of raising by it, and the indicator's upper bound.
DirectedColumns(s) ==
    LET growth(t) == [c \in DOMAIN GrowthColumns(t) |->
                         [factor |-> GrowthColumns(t)[c], reduces |-> FALSE, bound |-> One]]
    IN  CASE s = "access" ->
               growth(s)
               @@ [c \in {"primary_dropout", "secondary_dropout"} |->
                      [factor |-> "annual_dropout_reduction_factor", reduces |-> TRUE,
                       bound |-> One]]
          [] s = "finance" ->
               growth(s)
               @@ ("funding_adequacy" :>
                      [factor |-> "annual_funding_change_factor", reduces |-> FALSE,
                       bound |-> One])
          [] s = "teachers" ->
               "Qualification Score" :>
                   [factor |-> "annual_qualification_improvement_factor", reduces |-> FALSE,
                    bound |-> One]
               @@ "Experience Score" :>
                   [factor |-> "annual_experience_shift_factor", reduces |-> FALSE,
                    bound |-> One]
               @@ "PD Effectiveness" :>
                   [factor |-> "annual_pd_effectiveness_increase", reduces |-> FALSE,
                    bound |-> One]
               @@ "Workload Score" :>
                   [factor |-> "annual_workload_change_factor", reduces |-> FALSE,
                    bound |-> Num(2)]
               @@ "Motivation Score" :>
                   [factor |-> "annual_motivation_increase_factor", reduces |-> FALSE,
                    bound |-> One]
          [] OTHER -> growth(s)

\* The series sector s produced in the call that just returned: from its own
\* simulate method, or inside run_simulation.
SeriesRowsReturned(s) ==
    IF ret.op = "simulate" /\ ret.status = "ok" /\ ret.sector = s THEN ret.value.rows
    ELSE IF RunReturned THEN ret.value[s].rows
    ELSE <<>>

\* C19 as stated: funding_adequacy apart, every indicator keeps one direction
\* whatever the sign of its factor: the growth indicators and the teacher
\* drivers never fall from one year to the next, the dropout rates never rise.
C19_OnlyFundingReverses ==
    \A s \in SectorSet :
        \A c \in DOMAIN DirectedColumns(s) \ {"funding_adequacy"} :
            LET v == Column(SeriesRowsReturned(s), c)
            IN  \A i \in 1..(Len(v) - 1) :
                    IF DirectedColumns(s)[c].reduces
                    THEN LeReduced(v[i + 1], v[i])
                    ELSE LeReduced(v[i], v[i + 1])

\* C19 amended: the direction of every indicator, funding_adequacy or not,
\* follows the sign of its own factor.  From a value within its bound a
\* growth indicator, a teacher driver and funding_adequacy do not fall when
\* the factor is >= 0 and do not rise when it is <= 0; a dropout rate does
\* not rise when its factor is >= 0 and does not fall when it is <= 0.
C19_DirectionFollowsFactorSign ==
    \A s \in SectorSet :
        \A c \in DOMAIN DirectedColumns(s) :
            LET v == Column(SeriesRowsReturned(s), c)
                d == DirectedColumns(s)[c]
                f == ParametersOf(s)[d.factor]
                raises == (LeReduced(Zero, f) /\ ~d.reduces) \/ (LeReduced(f, Zero) /\ d.reduces)
                lowers == (LeReduced(f, Zero) /\ ~d.reduces) \/ (LeReduced(Zero, f) /\ d.reduces)
            IN  \A i \in 1..(Len(v) - 1) :
                    (LeReduced(Zero, v[i]) /\ LeReduced(v[i], d.bound)) =>
                        /\ raises => LeReduced(v[i], v[i + 1])
                        /\ lowers => LeReduced(v[i + 1], v[i])

\* An access series under negative factors in which, from year 0 to year 1,
\* a growth indicator falls from a value in [0,1] and a dropout rate rises.
C19_Witness ==
    LET rows == SeriesRowsReturned("access")
        p == sim.access.parameters
    IN  /\ Len(rows) >= 2
        /\ Lt(p.annual_enrollment_growth_factor, Zero)
        /\ Lt(p.annual_dropout_reduction_factor, Zero)
        /\ InUnit(rows[1].primary_enrollment)
        /\ Lt(rows[2].primary_enrollment, rows[1].primary_enrollment)
        /\ InUnit(rows[1].primary_dropout)
        /\ Lt(rows[1].primary_dropout, rows[2].primary_dropout)

\* The dropout risk of the access parameters: poverty_rate raised by half the
\* lack of school_quality and lowered by half the dropout_prevention, clipped
\* to [0,1]; an absent driver reads as 0.
DropoutRisk ==
    np_clip(Mul(Mul(Driver("access", "socioeconomic_factors", "poverty_rate"),
                    Add(One, Mul(Sub(One, Driver("access", "physical_infrastructure",
                                                 "school_quality")), Half))),
                Sub(One, Mul(Driver("access", "incentive_programs", "dropout_prevention"),
                             Half))),
            Zero, One)

AccessDriversInUnit ==
    \A g \in {"socioeconomic_factors", "physical_infrastructure", "incentive_programs"} :
        \A k \in DOMAIN sim.access.parameters[g] : InUnit(sim.access.parameters[g][k])

\* C20: with drivers in [0,1], the access model's year-0 dropout rates are
\* min(0.8 * risk, 1) and min(1.2 * risk, 1) of the dropout risk: in the state
\* _calculate_initial_state leaves and in the year-0 row of every series.
C20_DropoutFromRisk ==
    AccessDriversInUnit =>
        /\ (initialised["access"] /\ age["access"] = 0) =>
              /\ sim.access.current_primary_dropout = Min(Mul(DropoutRisk, R(4, 5)), One)
              /\ sim.access.current_secondary_dropout = Min(Mul(DropoutRisk, R(6, 5)), One)
        /\ Len(SeriesRowsReturned("access")) > 0 =>
              /\ SeriesRowsReturned("access")[1].primary_dropout
                   = Min(Mul(DropoutRisk, R(4, 5)), One)
              /\ SeriesRowsReturned("access")[1].secondary_dropout
                   = Min(Mul(DropoutRisk, R(6, 5)), One)

\* An access series for parameters whose three risk drivers are all given,
\* with a risk strictly inside (0,1): 0.25 * 1.25 * 0.8 = 0.25, so the rates
\* are 0.2 and 0.3.
C20_Witness ==
    /\ GenericSeriesReturned /\ ret.sector = "access"
    /\ "poverty_rate" \in DOMAIN sim.access.parameters.socioeconomic_factors
    /\ "school_quality" \in DOMAIN sim.access.parameters.physical_infrastructure
    /\ "dropout_prevention" \in DOMAIN sim.access.parameters.incentive_programs
    /\ DropoutRisk = R(1, 4)
    /\ ret.value.rows[1].primary_dropout = R(1, 5)
    /\ ret.value.rows[1].secondary_dropout = R(3, 10)

\* C21: an update step of a generic model depends only on the model's own
\* previous state and Parameters: whichever operation performs it (a direct
\* update_state call or a loop iteration of simulate) and whatever the other
\* sectors hold, the model's next state is update_state of its previous state,
\* the same for every value of the year argument.
C21_UpdateDependsOnOwnStateOnly ==
    [][\A s \in GenericSectors :
          age'[s] = age[s] + 1 =>
              \A year \in UpdateYearArgs \cup 0..MaxYears :
                  sim'[s] = update_state(s, sim[s], year)]_vars

\* update_state has been called directly on a generic model whose state had
\* been initialised, and has changed that state.
C21_Witness ==
    /\ ret.op = "update_state" /\ ret.sector \in GenericSectors
    /\ initialised[ret.sector] /\ age[ret.sector] = 1
    /\ sim[ret.sector] # calculate_initial_state(ret.sector, sim[ret.sector])
    /\ sim[ret.sector]
         = update_state(ret.sector, calculate_initial_state(ret.sector, sim[ret.sector]), 7)

\* The values of a row, its year label apart (set_index moves the teacher
\* rows' label to the index).
RowValues(r) == [c \in DOMAIN r \ {"Year"} |-> r[c]]

\* The rows a running simulate call of sector s has recorded so far.
RecordedRows(s) ==
    IF frame[s].pc = "loop"
    THEN [i \in 1..Len(frame[s].results) |-> RowValues(frame[s].results[i])]
    ELSE <<>>

\* The rows of the series of sector s that run_simulation holds.
HeldRows(s) ==
    IF run.pc # "idle" /\ s \in DOMAIN run.results
    THEN [i \in 1..Len(run.results[s].rows) |-> RowValues(run.results[s].rows[i])]
    ELSE <<>>

\* The rows of the series of sector s the last call returned to the client.
ReturnedRows(s) ==
    IF ret.op = "simulate" /\ ret.status = "ok" /\ ret.sector = s
    THEN [i \in 1..Len(ret.value.rows) |-> RowValues(ret.value.rows[i])]
    ELSE IF ret.op = "run_simulation" /\ ret.status = "ok"
    THEN [i \in 1..Len(ret.value[s].rows) |-> RowValues(ret.value[s].rows[i])]
    ELSE IF ret.op = "analyze_results"
    THEN [i \in 1..Len(ret.results[s].rows) |-> RowValues(ret.results[s].rows[i])]
    ELSE <<>>

IsPrefix(a, b) == Len(a) <= Len(b) /\ SubSeq(b, 1, Len(a)) = a

ParametersIn(simulation, s) ==
    IF s = "teachers" THEN simulation.teachers.params ELSE simulation[s].parameters

\* C23: after any sequence of initial-state computations, update_state and
\* simulate calls, each sector model's Parameters (driver groups and annual
\* change factors) are those it was constructed with.
C23_ParametersUnchanged ==
    \A s \in SectorSet :
        ParametersOf(s) = ParametersIn(BangladeshEducationSimulation_init(sim.config), s)

\* The finance model after direct update_state calls that moved its state,
\* or after a simulate call of three rows or more whose indicators moved.
C23_Witness ==
    /\ focus = "finance"
    /\ \/ /\ ret.op = "update_state" /\ initialised["finance"] /\ age["finance"] >= 2
          /\ sim.finance # calculate_initial_state("finance", sim.finance)
       \/ /\ ret.op = "simulate" /\ ret.status = "ok" /\ Len(ret.value.rows) >= 3
          /\ ret.value.rows[3] # [ret.value.rows[1] EXCEPT !.year = 2]
    /\ "funding_stability" \notin DOMAIN sim.finance.parameters.revenue_generation

\* The Parameters of sector s with every driver group that the configuration
\* gives under the sector's own block taken from there.
ParametersFromSectorBlock(s) ==
    [k \in DOMAIN ParametersOf(s) |->
        IF k \in ConfigReads(s).groups /\ k \in DOMAIN FactorMapping(s)
        THEN FactorMapping(s)[k]
        ELSE ParametersOf(s)[k]]

\* C24: for each of the seven sectors, the driver groups placed under the
\* sector's block of the configuration determine the sector's year-0
\* indicators.
C24_DriversReadFromSectorBlock ==
    /\ TeacherModel_calculate_initial_state(sim.teachers)
         = TeacherModel_calculate_initial_state(
               [sim.teachers EXCEPT !.params = ParametersFromSectorBlock("teachers")])
    /\ \A s \in GenericSectors :
          LET year0 == calculate_initial_state(s, sim[s])
              meant == calculate_initial_state(
                           s, [sim[s] EXCEPT !.parameters = ParametersFromSectorBlock(s)])
          IN  \A k \in DOMAIN year0 \ {"parameters"} : year0[k] = meant[k]

\* The defaults the Parameters dataclasses declare for their annual change
\* factors.
FieldDefaults(s) ==
    CASE s = "access" ->
           [f \in {"annual_enrollment_growth_factor", "annual_transition_improvement_factor",
                   "annual_dropout_reduction_factor"} |-> Zero]
      [] s = "quality" ->
           [f \in {"annual_quality_improvement_factor"} |-> Zero]
      [] s = "teachers" ->
           "annual_qualification_improvement_factor" :> R(1, 100)
           @@ "annual_experience_shift_factor" :> R(2, 100)
           @@ "annual_pd_effectiveness_increase" :> R(15, 1000)
           @@ "annual_workload_change_factor" :> Zero
           @@ "annual_motivation_increase_factor" :> R(5, 1000)
      [] s = "institutions" ->
           [f \in {"annual_leadership_improvement_factor",
                   "annual_engagement_improvement_factor",
                   "annual_resource_util_improvement_factor",
                   "annual_culture_improvement_factor"} |-> Zero]
      [] s = "curriculum" ->
           [f \in {"annual_relevance_improvement_factor", "annual_skills_improvement_factor",
                   "annual_materials_improvement_factor",
                   "annual_innovation_improvement_factor"} |-> Zero]
      [] s = "edtech" ->
           [f \in {"annual_infra_improvement_factor", "annual_competency_improvement_factor",
                   "annual_content_improvement_factor",
                   "annual_adoption_improvement_factor"} |-> Zero]
      [] s = "finance" ->
           [f \in {"annual_funding_change_factor", "annual_efficiency_improvement_factor",
                   "annual_management_improvement_factor",
                   "annual_alternative_financing_growth_factor"} |-> Zero]

\* C25: for every sector, an annual change factor absent from the
\* configuration has in the model's Parameters, where the orchestrator's
\* fallback put it, the value the Parameters record declares as the field's
\* own default.
C25_FactorDefaultsAgree ==
    \A s \in SectorSet :
        /\ DOMAIN FieldDefaults(s) = DOMAIN ConfigReads(s).defaults
        /\ \A f \in DOMAIN FieldDefaults(s) \ DOMAIN FactorMapping(s) :
              ParametersOf(s)[f] = FieldDefaults(s)[f]

\* C26: when a simulate call returns, the model's current state is the last
\* row of the returned series, for the six generic models and for the teacher
\* model.
C26_StateIsLastRow ==
    /\ (GenericSeriesReturned /\ Len(ret.value.rows) > 0) =>
           LET last == ret.value.rows[Len(ret.value.rows)]
           IN  row(ret.sector, sim[ret.sector], last.year) = last
    /\ (TeacherSeriesReturned /\ Len(ret.value.rows) > 0) =>
           RowValues(TeacherModel_row(sim.teachers, 0)) = ret.value.rows[Len(ret.value.rows)]

\* The generic half of C26 alone.
GenericStateIsLastRow ==
    (GenericSeriesReturned /\ Len(ret.value.rows) > 0) =>
        LET last == ret.value.rows[Len(ret.value.rows)]
        IN  row(ret.sector, sim[ret.sector], last.year) = last

\* C27: series are prefix-consistent.  The first n rows of the series a
\* generic simulate(m) returned are the series simulate(n) yields, for every
\* 1 <= n <= m; the first rows of the teacher series for [start, m] are the
\* teacher series for [start, n], labels included, for every start <= n <= m.
C27_PrefixConsistent ==
    /\ GenericSeriesReturned =>
           \A n \in 1..ret.years :
               /\ FreshGenericSeries(ret.sector, n).rows = SubSeq(ret.value.rows, 1, n)
               /\ FreshGenericSeries(ret.sector, n).index = SubSeq(ret.value.index, 1, n)
    /\ TeacherSeriesReturned =>
           \A n \in ret.start_year..ret.end_year :
               LET shorter == set_index(FreshTeacherFrame(ret.start_year, n), "Year")
                   k == n - ret.start_year + 1
               IN  /\ shorter.rows = SubSeq(ret.value.rows, 1, k)
                   /\ shorter.index = SubSeq(ret.value.index, 1, k)

\* A generic series of four rows that moves at every step, and so has three
\* proper prefixes that differ from one another in their last row.
C27_Witness ==
    /\ GenericSeriesReturned /\ ret.years >= 4
    /\ Len(ret.value.rows) = ret.years
    /\ \A i \in 1..(Len(ret.value.rows) - 1) :
           [ret.value.rows[i] EXCEPT !.year = 0] # [ret.value.rows[i + 1] EXCEPT !.year = 0]
    /\ Len(FreshGenericSeries(ret.sector, 2).rows) = 2

\* annual_dropout_reduction_factor lies in [0,1].
DropoutReductionInClosedUnit ==
    InUnit(sim.access.parameters.annual_dropout_reduction_factor)

\* C28: with drivers in [0,1] and annual_dropout_reduction_factor in [0,1],
\* primary_dropout <= secondary_dropout in every row of every access series,
\* and in the access model's state once it has been initialised.
C28_PrimaryDropoutBelowSecondary ==
    (AccessDriversInUnit /\ DropoutReductionInClosedUnit) =>
        /\ \A i \in 1..Len(SeriesRowsReturned("access")) :
               LeReduced(SeriesRowsReturned("access")[i].primary_dropout,
                         SeriesRowsReturned("access")[i].secondary_dropout)
        /\ initialised["access"] =>
               LeReduced(sim.access.current_primary_dropout,
                         sim.access.current_secondary_dropout)

\* An access series of three rows or more under a factor in (0,1] in which
\* both rates fall from year 0 to year 1 and the primary rate is strictly
\* below the secondary one in rows 1 and 2.
C28_Witness ==
    LET rows == SeriesRowsReturned("access")
    IN  /\ DropoutReductionInClosedUnit
        /\ Lt(Zero, sim.access.parameters.annual_dropout_reduction_factor)
        /\ Len(rows) >= 3
        /\ Lt(rows[2].primary_dropout, rows[1].primary_dropout)
        /\ Lt(rows[2].secondary_dropout, rows[1].secondary_dropout)
        /\ \A i \in 1..2 : Lt(rows[i].primary_dropout, rows[i].secondary_dropout)

\* The indicators of sector s that are updated with the diminishing-returns
\* rule, as (column, state attribute) pairs.
GrowthAttributes(s) == {<<c, "current_" \o c>> : c \in DOMAIN GrowthColumns(s)}

\* C29: 0 and 1 are fixed points of the diminishing-returns update, for every
\* annual change factor: a Grow-updated indicator that is exactly 0 or exactly
\* 1 in one row of a series has that value in the next row, and so in every
\* later one; and one update of any reachable state leaves such an indicator
\* where it is.
C29_ZeroAndOneFixed ==
    \A s \in GenericSectors :
        \A a \in GrowthAttributes(s) :
            /\ LET v == Column(SeriesRowsReturned(s), a[1])
               IN  \A i \in 1..(Len(v) - 1) : v[i] \in {Zero, One} => v[i + 1] = v[i]
            /\ sim[s][a[2]] \in {Zero, One} =>
                   update_state(s, sim[s], 0)[a[2]] = sim[s][a[2]]

\* A series of three rows or more, under a factor other than 0, in which one
\* indicator stays at 0, another stays at 1 and a third moves.
C29_Witness ==
    /\ GenericSeriesReturned /\ Len(ret.value.rows) >= 3
    /\ \E a, b, c \in DOMAIN GrowthColumns(ret.sector) :
          /\ \A i \in 1..Len(ret.value.rows) : ret.value.rows[i][a] = Zero
          /\ \A i \in 1..Len(ret.value.rows) : ret.value.rows[i][b] = One
          /\ ret.value.rows[2][c] # ret.value.rows[1][c]
          /\ \A x \in {a, b, c} :
                sim[ret.sector].parameters[GrowthColumns(ret.sector)[x]] # Zero

\* The teacher state with its entries named as the columns of the series.
TeacherColumns(self) == RowValues(TeacherModel_row(self, 0))

\* C30: in every teacher update step, each of the five drivers becomes its
\* own previous value times (1 + its own annual factor), clipped to its bound
\* (workload to [0,2], the others to [0,1]), whatever the other drivers and
\* the composites hold; the composites are then those of the new drivers.
C30_DriverFromOwnValueAndFactor ==
    [][age'["teachers"] = age["teachers"] + 1 =>
          /\ \A c \in DOMAIN DirectedColumns("teachers") :
                LET d == DirectedColumns("teachers")[c]
                IN  TeacherColumns(sim'.teachers)[c]
                        = np_clip(Mul(TeacherColumns(sim.teachers)[c],
                                      Add(One, sim.teachers.params[d.factor])),
                                  Zero, d.bound)
          /\ CompositesFromOwnRow(TeacherColumns(sim'.teachers))]_vars

\* The teacher model, with PD, workload and motivation factors that all
\* differ, after the one update of a simulation over [0, 0]: each of the three
\* drivers has moved from its year-0 value by its own factor.
C30_Witness ==
    LET p == sim.teachers.params
        year0 == TeacherColumns(teacher_simulate_begin(sim.teachers))
        now == TeacherColumns(sim.teachers)
    IN  /\ age["teachers"] = 1
        /\ Cardinality({p.annual_pd_effectiveness_increase, p.annual_workload_change_factor,
                        p.annual_motivation_increase_factor}) = 3
        /\ now["PD Effectiveness"]
             = Mul(year0["PD Effectiveness"], Add(One, p.annual_pd_effectiveness_increase))
        /\ now["Workload Score"]
             = Mul(year0["Workload Score"], Add(One, p.annual_workload_change_factor))
        /\ now["Motivation Score"]
             = Mul(year0["Motivation Score"], Add(One, p.annual_motivation_increase_factor))
        /\ \A c \in {"PD Effectiveness", "Workload Score", "Motivation Score"} :
               now[c] # year0[c]

====
